---- MODULE Spec2Model ----
(***************************************************************************)
(* Scoring and interpretation engine of the Psy_OPD backend.               *)
(*                                                                         *)
(* The rule evaluator interpret_rating_scale                               *)
(* (backend/app/services/interpretation.py) is modelled as an operator     *)
(* over the content of the criteria file, which the function re-reads on   *)
(* every call, and its four arguments.  String literals of the source that *)
(* are written in Korean are given here by an ASCII gloss; the source line *)
(* of each is named where it is defined.                                   *)
(***************************************************************************)
EXTENDS Integers, Sequences, FiniteSets, TLC

VARIABLES
    disk,       \* content of app/reference/scoring_criteria.json
    args,       \* arguments of the invocation of interpret_rating_scale
    loaded,     \* the table that invocation loaded from the file (data)
    outcome,    \* what that invocation returned or raised
    snap,       \* an earlier invocation, remembered for comparison
    request,    \* the call of a scoring function or endpoint under way
    reply,      \* what that call returned or raised
    surveys,    \* the documents of the Firestore collection `surveys`
    clock,      \* the time of the server and of the store, in hours
    _patient_info_cache,    \* dashboard.py: patient id -> demographic info
    _cache_timestamp,       \* dashboard.py: patient id -> time of caching
    users,      \* the documents of the Firestore collection `users`
    accounts,   \* the passwords the authentication service holds
    tasks,      \* the tasks created on the event loop and not yet run
    trace       \* the calls of the store the request under way has made

vars == <<disk, args, loaded, outcome, snap, request, reply, surveys, clock,
          _patient_info_cache, _cache_timestamp, users, accounts, tasks, trace>>
scoring == <<request, reply, surveys>>
services == <<clock, _patient_info_cache, _cache_timestamp, users, accounts,
              tasks, trace>>

\* the cache, the user records and the event loop are not involved
ServicesIdle ==
    /\ clock = 0
    /\ _patient_info_cache = <<>>
    /\ _cache_timestamp = <<>>
    /\ users = <<>>
    /\ accounts = <<>>
    /\ tasks = {}
    /\ trace = <<>>

(***************************************************************************)
(* Bounds of the model.                                                    *)
(***************************************************************************)
MaxRules == 2          \* longest rule list of a generated instrument
MaxPoint == 2          \* largest range bound / threshold of a generated rule
MaxAssessments == 2    \* longest criteria file of the process-lifetime model
MaxScore == MaxPoint + 2

Points == 1..MaxPoint
Scores == 0..MaxScore

(***************************************************************************)
(* Python values: None, bool, int and str, with Python's == and            *)
(* truthiness.  bool is a subclass of int, so True == 1 and False == 0,    *)
(* while a str never equals a number.                                      *)
(***************************************************************************)
PyNone == [t |-> "NoneType", n |-> 0, s |-> ""]
PyBool(b) == [t |-> "bool", n |-> IF b THEN 1 ELSE 0, s |-> ""]
PyInt(i) == [t |-> "int", n |-> i, s |-> ""]
PyStr(x) == [t |-> "str", n |-> 0, s |-> x]

PyNumeric(v) == v.t \in {"bool", "int"}

\* mutant: == after tolerant boolean coercion of "true"/"false"/None/""
PyEq_Tolerant(a, b) ==
    LET Coerce(v) ==
            IF v \in {PyBool(TRUE), PyInt(1), PyStr("true")} THEN PyBool(TRUE)
            ELSE IF v \in {PyBool(FALSE), PyInt(0), PyStr("false"), PyNone, PyStr("")}
                 THEN PyBool(FALSE)
                 ELSE v
    IN Coerce(a) = Coerce(b)

PyEq(a, b) ==
    IF PyNumeric(a) /\ PyNumeric(b) THEN a.n = b.n
    ELSE a.t = b.t /\ a.n = b.n /\ a.s = b.s

PyTruthy(v) ==
    CASE v.t = "NoneType" -> FALSE
      [] v.t = "str" -> v.s # ""
      [] OTHER -> v.n # 0

(***************************************************************************)
(* A dict argument that may be None: additional_conditions.                *)
(***************************************************************************)
NoDict == [isNone |-> TRUE, d |-> <<>>]
Dict(f) == [isNone |-> FALSE, d |-> f]
DictTruthy(m) == ~m.isNone /\ DOMAIN m.d # {}
DictGet(m, k) == IF k \in DOMAIN m.d THEN m.d[k] ELSE PyNone

(***************************************************************************)
(* Texts: a fixed string, or an f-string as its template and the values    *)
(* formatted into it.                                                      *)
(***************************************************************************)
NoText == [isNone |-> TRUE, tmpl |-> "", fmt |-> <<>>]
Text(tmpl, fmt) == [isNone |-> FALSE, tmpl |-> tmpl, fmt |-> fmt]

(***************************************************************************)
(* JSON numbers of a range: [low, high] with high possibly null.           *)
(***************************************************************************)
JNull == [null |-> TRUE, n |-> 0]
JNum(n) == [null |-> FALSE, n |-> n]

\* float("inf") and the finite numbers it is compared with
Inf == [inf |-> TRUE, v |-> 0]
Fin(n) == [inf |-> FALSE, v |-> n]

(***************************************************************************)
(* The criteria table.  A rule (criterion) is a JSON object: `keys` is the *)
(* set of its keys, the other fields hold the values of the keys present.  *)
(***************************************************************************)
NoCondition == [field |-> "", value |-> PyNone]

RangeRule(low, high, category, description) ==
    [keys |-> {"range", "category", "description"},
     range |-> <<low, high>>, threshold |-> 0,
     category |-> category, description |-> description,
     additional_condition |-> NoCondition]

ThresholdRule(threshold, category, description) ==
    [keys |-> {"threshold", "category", "description"},
     range |-> <<0, JNull>>, threshold |-> threshold,
     category |-> category, description |-> description,
     additional_condition |-> NoCondition]

ConditionRule(threshold, category, description, field, value) ==
    [keys |-> {"threshold", "category", "description", "additional_condition"},
     range |-> <<0, JNull>>, threshold |-> threshold,
     category |-> category, description |-> description,
     additional_condition |-> [field |-> field, value |-> value]]

\* an assessment with a general rule list ("criteria")
Assessment(name, criteria) ==
    [name |-> name, keys |-> {"name", "criteria"},
     criteria |-> criteria, criteria_by_gender |-> <<>>]

\* an assessment with a gender-keyed rule table ("criteria_by_gender")
GenderAssessment(name, table) ==
    [name |-> name, keys |-> {"name", "criteria_by_gender"},
     criteria |-> <<>>, criteria_by_gender |-> table]

\* the file: missing, or a JSON document {"assessments": [...]}
NoFile == [exists |-> FALSE, assessments |-> <<>>]
File(assessments) == [exists |-> TRUE, assessments |-> assessments]

(***************************************************************************)
(* Results of interpret_rating_scale: a returned dict (`keys` is the set   *)
(* of its keys) or a raised exception.  kind "fallthrough" is the result   *)
(* dict of a rule loop that ended without an early return.                 *)
(***************************************************************************)
Pending ==
    [kind |-> "pending", keys |-> {}, category |-> PyNone,
     description |-> NoText, error |-> NoText, exc |-> ""]

Raise(exc) == [Pending EXCEPT !.kind = "raise", !.exc = exc]

ReturnError(error) ==
    [Pending EXCEPT !.kind = "return", !.keys = {"error"}, !.error = error]

ReturnCategory(category, description) ==
    [Pending EXCEPT !.kind = "return", !.keys = {"category", "description"},
                    !.category = category, !.description = description]

\* result = {"category": None, "description": None}, possibly filled by a rule
Result(category, description) ==
    [Pending EXCEPT !.kind = "fallthrough", !.keys = {"category", "description"},
                    !.category = category, !.description = description]

\* the texts of the source
MsgNotFound(assessment_name) ==
    Text("Assessment '{}' not found.", <<assessment_name>>)
MsgGenderRequired == Text("Gender is required for this assessment.", <<>>)
MsgInvalidGender(gender) ==
    Text("Invalid gender '{}'. Expected 'M' or 'F'.", <<gender>>)
MsgConditionsRequired ==
    Text("Additional conditions required for this assessment.", <<>>)
MsgNoMatch == Text("No matching criteria found for the given score.", <<>>)
CatConditionNotMet == PyStr("condition not met")
DescConditionNotMet(condition_field, expected_value, actual_value) ==
    Text("{} must be '{}' but is '{}'.",
         <<PyStr(condition_field), expected_value, actual_value>>)
CatNormal == PyStr("normal")
DescNormal == Text("The score is below the threshold and is taken as normal.", <<>>)

(***************************************************************************)
(* interpret_rating_scale, step by step.                                   *)
(***************************************************************************)
\* next((a for a in data["assessments"] if a["name"] == assessment_name), None)
RECURSIVE FindAssessment(_, _, _)
FindAssessment(assessments, i, assessment_name) ==
    IF i > Len(assessments) THEN [found |-> FALSE, value |-> Assessment("", <<>>)]
    ELSE IF assessments[i].name = assessment_name
         THEN [found |-> TRUE, value |-> assessments[i]]
         ELSE FindAssessment(assessments, i + 1, assessment_name)

\* range_max: the upper bound, float("inf") for null
RangeMax(criterion) ==
    IF criterion.range[2].null THEN Inf ELSE Fin(criterion.range[2].n)

\* mutant: the upper bound is excluded
InRange_Exclusive(range_min, score, range_max) ==
    /\ range_min <= score
    /\ (range_max.inf \/ score < range_max.v)

\* range_min <= score <= range_max
InRange(range_min, score, range_max) ==
    /\ range_min <= score
    /\ (range_max.inf \/ score <= range_max.v)

\* score >= criterion["threshold"]
ReachesThreshold(score, criterion) == score >= criterion.threshold

\* actual_value != expected_value
ConditionFails(actual_value, expected_value) == ~PyEq(actual_value, expected_value)

\* the loop over criteria_by_gender[gender]: every criterion is read as a range
RECURSIVE ScanGenderCriteria(_, _, _)
ScanGenderCriteria(criteria, i, score) ==
    IF i > Len(criteria) THEN Result(PyNone, NoText)
    ELSE LET criterion == criteria[i] IN
         IF "range" \notin criterion.keys THEN Raise("KeyError")
         ELSE IF InRange(criterion.range[1], score, RangeMax(criterion))
              THEN Result(criterion.category, criterion.description)
              ELSE ScanGenderCriteria(criteria, i + 1, score)

\* mutant: a failed condition falls through instead of returning
ThresholdHit_FallsThrough(criterion, additional_conditions) ==
    IF "additional_condition" \in criterion.keys
    THEN IF ~DictTruthy(additional_conditions)
         THEN ReturnError(MsgConditionsRequired)
         ELSE LET condition_field == criterion.additional_condition.field
                  expected_value == criterion.additional_condition.value
                  actual_value == DictGet(additional_conditions, condition_field)
              IN IF ConditionFails(actual_value, expected_value)
                 THEN Result(PyNone, NoText)
                 ELSE Result(criterion.category, criterion.description)
    ELSE Result(criterion.category, criterion.description)

\* the body of the threshold branch once the score has reached the threshold
ThresholdHit(criterion, additional_conditions) ==
    IF "additional_condition" \in criterion.keys
    THEN IF ~DictTruthy(additional_conditions)
         THEN ReturnError(MsgConditionsRequired)
         ELSE LET condition_field == criterion.additional_condition.field
                  expected_value == criterion.additional_condition.value
                  actual_value == DictGet(additional_conditions, condition_field)
              IN IF ConditionFails(actual_value, expected_value)
                 THEN ReturnCategory(CatConditionNotMet,
                          DescConditionNotMet(condition_field, expected_value,
                                              actual_value))
                 ELSE Result(criterion.category, criterion.description)
    ELSE Result(criterion.category, criterion.description)

\* mutant: the loop has no break, so the last rule the score satisfies wins
RECURSIVE ScanCriteria_NoBreak(_, _, _, _)
ScanCriteria_NoBreak(criteria, i, score, additional_conditions) ==
    IF i > Len(criteria) THEN Result(PyNone, NoText)
    ELSE LET criterion == criteria[i]
             rest == ScanCriteria_NoBreak(criteria, i + 1, score,
                                          additional_conditions)
             hit == IF "range" \in criterion.keys
                    THEN InRange(criterion.range[1], score, RangeMax(criterion))
                    ELSE "threshold" \in criterion.keys
                         /\ ReachesThreshold(score, criterion)
         IN IF hit /\ rest.category = PyNone
            THEN IF "range" \in criterion.keys
                 THEN Result(criterion.category, criterion.description)
                 ELSE ThresholdHit(criterion, additional_conditions)
            ELSE rest

\* the loop over assessment["criteria"]
RECURSIVE ScanCriteria(_, _, _, _)
ScanCriteria(criteria, i, score, additional_conditions) ==
    IF i > Len(criteria) THEN Result(PyNone, NoText)
    ELSE LET criterion == criteria[i] IN
         IF "range" \in criterion.keys
         THEN IF InRange(criterion.range[1], score, RangeMax(criterion))
              THEN Result(criterion.category, criterion.description)
              ELSE ScanCriteria(criteria, i + 1, score, additional_conditions)
         ELSE IF "threshold" \in criterion.keys
              THEN IF ReachesThreshold(score, criterion)
                   THEN ThresholdHit(criterion, additional_conditions)
                   ELSE ScanCriteria(criteria, i + 1, score, additional_conditions)
              ELSE ScanCriteria(criteria, i + 1, score, additional_conditions)

\* mutant: the default looks at the last rule instead of the first
NoMatchDefault_LastRule(assessment, result) ==
    IF "criteria" \notin assessment.keys THEN Raise("KeyError")
    ELSE IF Len(assessment.criteria) = 0 THEN Raise("IndexError")
    ELSE IF "threshold" \in assessment.criteria[Len(assessment.criteria)].keys
         THEN ReturnCategory(CatNormal, DescNormal)
         ELSE [result EXCEPT !.kind = "return",
                             !.keys = @ \cup {"error"},
                             !.error = MsgNoMatch]

\* "If no matching criteria found": the default looks at assessment["criteria"][0]
NoMatchDefault(assessment, result) ==
    IF "criteria" \notin assessment.keys THEN Raise("KeyError")
    ELSE IF Len(assessment.criteria) = 0 THEN Raise("IndexError")
    ELSE IF "threshold" \in assessment.criteria[1].keys
         THEN ReturnCategory(CatNormal, DescNormal)
         ELSE [result EXCEPT !.kind = "return",
                             !.keys = @ \cup {"error"},
                             !.error = MsgNoMatch]

\* what follows the rule loops: the early returns stand, the result dict is
\* completed and returned
Finish(assessment, r) ==
    IF r.kind # "fallthrough" THEN r
    ELSE IF ~PyTruthy(r.category) THEN NoMatchDefault(assessment, r)
    ELSE [r EXCEPT !.kind = "return"]

\* mutant: an unknown gender key falls back to the first key's rules
GenderBranch_FallsBack(assessment, score, gender) ==
    IF ~PyTruthy(gender) THEN ReturnError(MsgGenderRequired)
    ELSE IF gender.s \notin DOMAIN assessment.criteria_by_gender
         THEN ScanGenderCriteria(assessment.criteria_by_gender["M"], 1, score)
         ELSE ScanGenderCriteria(assessment.criteria_by_gender[gender.s], 1, score)

\* the gender branch
GenderBranch(assessment, score, gender) ==
    IF ~PyTruthy(gender) THEN ReturnError(MsgGenderRequired)
    ELSE IF gender.s \notin DOMAIN assessment.criteria_by_gender
         THEN ReturnError(MsgInvalidGender(gender))
         ELSE ScanGenderCriteria(assessment.criteria_by_gender[gender.s], 1, score)

\* mutant: next() without a default, so an unknown name raises StopIteration
interpret_rating_scale_NoDefault(data, assessment_name, score, gender, additional_conditions) ==
    IF ~data.exists THEN Raise("FileNotFoundError")
    ELSE LET assessment == FindAssessment(data.assessments, 1, assessment_name) IN
         IF ~assessment.found THEN Raise("StopIteration")
         ELSE LET a == assessment.value IN
              IF "criteria_by_gender" \in a.keys
              THEN Finish(a, GenderBranch(a, score, gender))
              ELSE IF "criteria" \in a.keys
                   THEN Finish(a, ScanCriteria(a.criteria, 1, score,
                                               additional_conditions))
                   ELSE Finish(a, Result(PyNone, NoText))

interpret_rating_scale(data, assessment_name, score, gender, additional_conditions) ==
    IF ~data.exists THEN Raise("FileNotFoundError")
    ELSE LET assessment == FindAssessment(data.assessments, 1, assessment_name) IN
         IF ~assessment.found THEN ReturnError(MsgNotFound(PyStr(assessment_name)))
         ELSE LET a == assessment.value IN
              IF "criteria_by_gender" \in a.keys
              THEN Finish(a, GenderBranch(a, score, gender))
              ELSE IF "criteria" \in a.keys
                   THEN Finish(a, ScanCriteria(a.criteria, 1, score,
                                               additional_conditions))
                   ELSE Finish(a, Result(PyNone, NoText))

(***************************************************************************)
(* Inputs.  Generated instruments: every rule list of at most MaxRules     *)
(* rules over the rule shapes with bounds and thresholds in Points.  The   *)
(* rule at position i carries its own non-empty category and description,  *)
(* so that the rule a result comes from can be told.                       *)
(***************************************************************************)
ConditionField == "simultaneity"
Yes == PyStr("yes")
No == PyStr("no")

Label(rule, i) ==
    [rule EXCEPT !.category = PyStr("category" \o ToString(i)),
                 !.description = Text("description" \o ToString(i), <<>>)]

RangeShapes ==
    {RangeRule(low, JNull, PyNone, NoText) : low \in Points}
    \cup UNION {{RangeRule(low, JNum(high), PyNone, NoText) : high \in low..MaxPoint} :
                    low \in Points}

ThresholdShapes ==
    {ThresholdRule(t, PyNone, NoText) : t \in Points}

ConditionShapes(value) ==
    {ConditionRule(t, PyNone, NoText, ConditionField, value) : t \in Points}

RuleLists(shapes, maxlen) ==
    UNION {{[i \in 1..n |-> Label(l[i], i)] : l \in [1..n -> shapes]} : n \in 0..maxlen}

\* the name of the instrument under evaluation in a generated file
Instrument == "X"

GeneralInstruments ==
    {Assessment(Instrument, l) :
        l \in RuleLists(RangeShapes \cup ThresholdShapes \cup ConditionShapes(Yes),
                        MaxRules)}

\* the rule list of the second gender key
OtherGenderLists ==
    {<<Label(RangeRule(1, JNull, PyNone, NoText), 8)>>,
     <<Label(RangeRule(MaxPoint, JNum(MaxPoint), PyNone, NoText), 9)>>}

GenderInstruments ==
    {GenderAssessment(Instrument, [g \in {"M", "F"} |-> IF g = "M" THEN l ELSE o]) :
        l \in RuleLists(RangeShapes, MaxRules), o \in OtherGenderLists}

Genders == {PyNone, PyStr(""), PyStr("M"), PyStr("F"), PyStr("other")}

Call(assessment_name, score, gender, additional_conditions) ==
    [assessment_name |-> assessment_name, score |-> score, gender |-> gender,
     additional_conditions |-> additional_conditions]

NoCall == Call("", 0, PyNone, NoDict)

\* no scoring call is under way and nothing is stored
NoRequest == [op |-> "none"]
NoReply ==
    [kind |-> "pending", value |-> 0, exc |-> "", status_code |-> 0, detail |-> ""]
ScoringIdle == request = NoRequest /\ reply = NoReply /\ surveys = <<>>
NoSnap == [taken |-> FALSE, args |-> NoCall, data |-> NoFile, outcome |-> Pending]

\* the rule scan: general instruments with the condition met, failed or not
\* supplied, and gender-keyed instruments with every form of the gender argument
InitRules ==
    /\ \/ /\ disk \in {File(<<a>>) : a \in GeneralInstruments}
          /\ args \in {Call(Instrument, sc, PyNone, c) :
                          sc \in Scores,
                          c \in {NoDict,
                                 Dict([f \in {ConditionField} |-> Yes]),
                                 Dict([f \in {ConditionField} |-> No])}}
       \/ /\ disk \in {File(<<a>>) : a \in GenderInstruments}
          /\ args \in {Call(Instrument, sc, g, NoDict) : sc \in Scores, g \in Genders}
    /\ loaded = NoFile
    /\ outcome = Pending
    /\ snap = NoSnap
    /\ ScoringIdle
    /\ ServicesIdle

(***************************************************************************)
(* Inputs of the auxiliary condition: instruments whose first rule is a    *)
(* threshold rule with additional_condition, followed by range and plain   *)
(* threshold rules, with every expected value and every form of the        *)
(* additional_conditions argument.                                         *)
(***************************************************************************)
ExpectedValues == {PyBool(TRUE), PyBool(FALSE), Yes}

SuppliedValues ==
    {PyBool(TRUE), PyBool(FALSE), PyInt(1), PyInt(0), PyStr("true"),
     PyStr("false"), PyNone, PyStr(""), Yes, No}

SuppliedConditions ==
    {NoDict, Dict(<<>>), Dict([f \in {"other"} |-> Yes])}
    \cup {Dict([f \in {ConditionField} |-> v]) : v \in SuppliedValues}

ConditionInstruments ==
    {Assessment(Instrument, [i \in DOMAIN l |-> Label(l[i], i)]) :
        l \in UNION {{m \in [1..n -> ConditionShapes(e) \cup RangeShapes
                                     \cup ThresholdShapes] :
                          /\ m[1] \in ConditionShapes(e)
                          /\ \A i \in 2..n : m[i] \notin ConditionShapes(e)} :
                     n \in 1..MaxRules, e \in ExpectedValues}}

InitConditions ==
    /\ disk \in {File(<<a>>) : a \in ConditionInstruments}
    /\ args \in {Call(Instrument, sc, PyNone, c) :
                    sc \in Scores, c \in SuppliedConditions}
    /\ loaded = NoFile
    /\ outcome = Pending
    /\ snap = NoSnap
    /\ ScoringIdle
    /\ ServicesIdle

(***************************************************************************)
(* Inputs of the lookup by name: files of at most MaxAssessments           *)
(* assessments, a missing file, and requests for names in and not in the   *)
(* file.  The assessments are those of the sample table of                 *)
(* tests/test_interpretation.py with their bounds scaled into Scores; BDI  *)
(* comes in two versions with different bounds.                            *)
(***************************************************************************)
BDI ==
    Assessment("BDI", <<Label(RangeRule(0, JNum(1), PyNone, NoText), 1),
                        Label(RangeRule(2, JNum(3), PyNone, NoText), 2)>>)
BDIEdited ==
    Assessment("BDI", <<Label(RangeRule(0, JNum(2), PyNone, NoText), 1),
                        Label(RangeRule(3, JNull, PyNone, NoText), 2)>>)
AUDIT ==
    GenderAssessment("AUDIT",
        [g \in {"M", "F"} |->
            IF g = "M"
            THEN <<Label(RangeRule(0, JNum(2), PyNone, NoText), 1),
                   Label(RangeRule(3, JNull, PyNone, NoText), 2)>>
            ELSE <<Label(RangeRule(0, JNum(1), PyNone, NoText), 8),
                   Label(RangeRule(2, JNull, PyNone, NoText), 9)>>])
KMDQ ==
    Assessment("K-MDQ",
        <<Label(ConditionRule(2, PyNone, NoText, ConditionField, Yes), 1)>>)
OCIR == Assessment("OCI-R", <<Label(ThresholdRule(3, PyNone, NoText), 1)>>)

SampleAssessments == {BDI, BDIEdited, AUDIT, KMDQ, OCIR}
Names == {"BDI", "AUDIT", "K-MDQ", "OCI-R", "UNKNOWN_SCALE"}

SampleFiles ==
    {NoFile} \cup
    {File(l) : l \in UNION {[1..n -> SampleAssessments] : n \in 0..MaxAssessments}}

InitNames ==
    /\ disk \in SampleFiles
    /\ args \in {Call(name, sc, g, c) :
                    name \in Names, sc \in Scores,
                    g \in {PyNone, PyStr("M"), PyStr("other")},
                    c \in {NoDict, Dict([f \in {ConditionField} |-> Yes])}}
    /\ loaded = NoFile
    /\ outcome = Pending
    /\ snap = NoSnap
    /\ ScoringIdle
    /\ ServicesIdle

Init == InitRules \/ InitConditions \/ InitNames

\* one invocation of interpret_rating_scale: the file is loaded as it is on disk
Interpret ==
    /\ outcome.kind = "pending"
    /\ loaded' = disk
    /\ outcome' = interpret_rating_scale(disk, args.assessment_name, args.score,
                                         args.gender, args.additional_conditions)
    /\ UNCHANGED <<disk, args, snap>>
    /\ UNCHANGED services
    /\ UNCHANGED scoring
    /\ UNCHANGED services

Next == Interpret

Spec == Init /\ [][Next]_vars

(***************************************************************************)
(* The process lifetime: invocations follow one another while the file on  *)
(* disk is edited, replaced or removed between them.  A finished           *)
(* invocation may be remembered, to be compared with a later one.          *)
(***************************************************************************)
FileAtStart == File(<<BDI, AUDIT, KMDQ, OCIR>>)
LifeFiles == {FileAtStart, File(<<BDIEdited, KMDQ>>), NoFile}

LifeCalls ==
    {Call(name, sc, g, NoDict) :
        name \in {"BDI", "AUDIT"}, sc \in {1, 2}, g \in {PyNone, PyStr("M")}}

InitLife ==
    /\ disk = FileAtStart
    /\ args = NoCall
    /\ loaded = NoFile
    /\ outcome = Pending
    /\ snap = NoSnap
    /\ ScoringIdle
    /\ ServicesIdle

\* mutant: the table loaded by the previous invocation is used again
Invoke_Cached(call) ==
    /\ args' = call
    /\ loaded' = disk
    /\ outcome' = interpret_rating_scale(IF loaded.exists THEN loaded ELSE disk,
                                         call.assessment_name, call.score,
                                         call.gender, call.additional_conditions)
    /\ UNCHANGED <<disk, snap>>
    /\ UNCHANGED services
    /\ UNCHANGED scoring
    /\ UNCHANGED services

\* an invocation of interpret_rating_scale: it opens and loads the file
Invoke(call) ==
    /\ args' = call
    /\ loaded' = disk
    /\ outcome' = interpret_rating_scale(disk, call.assessment_name, call.score,
                                         call.gender, call.additional_conditions)
    /\ UNCHANGED <<disk, snap>>
    /\ UNCHANGED services
    /\ UNCHANGED scoring
    /\ UNCHANGED services

\* the file on disk gets another content
EditCriteriaFile ==
    /\ disk' \in LifeFiles \ {disk}
    /\ UNCHANGED <<args, loaded, outcome, snap>>
    /\ UNCHANGED scoring
    /\ UNCHANGED services

\* the finished invocation is remembered
Remember ==
    /\ outcome.kind # "pending"
    /\ ~snap.taken
    /\ snap' = [taken |-> TRUE, args |-> args, data |-> loaded, outcome |-> outcome]
    /\ UNCHANGED <<disk, args, loaded, outcome>>
    /\ UNCHANGED services
    /\ UNCHANGED scoring
    /\ UNCHANGED services

NextLife ==
    \/ \E call \in LifeCalls : Invoke(call)
    \/ EditCriteriaFile
    \/ Remember

SpecLife == InitLife /\ [][NextLife]_vars

(***************************************************************************)
(* Vocabulary of the properties.  The instrument under evaluation is the   *)
(* first assessment of the file that has the requested name.               *)
(***************************************************************************)
Done == outcome.kind # "pending"
Named == {i \in DOMAIN disk.assessments : disk.assessments[i].name = args.assessment_name}
Known == disk.exists /\ Named # {}
Target == disk.assessments[CHOOSE i \in Named : \A j \in Named : i <= j]
GenderKeyed == Known /\ "criteria_by_gender" \in Target.keys
General == Known /\ "criteria" \in Target.keys
ValidGender ==
    args.gender.t = "str" /\ args.gender.s \in DOMAIN Target.criteria_by_gender
HasActiveRules == General \/ (GenderKeyed /\ ValidGender)
ActiveRules ==
    IF GenderKeyed THEN Target.criteria_by_gender[args.gender.s] ELSE Target.criteria

IsRange(rule) == "range" \in rule.keys
IsThreshold(rule) == ~IsRange(rule) /\ "threshold" \in rule.keys
HasCondition(rule) == "additional_condition" \in rule.keys

\* the score lies in the rule's range, or has reached its threshold
Satisfies(score, rule) ==
    IF IsRange(rule)
    THEN /\ rule.range[1] <= score
         /\ (rule.range[2].null \/ score <= rule.range[2].n)
    ELSE score >= rule.threshold

FirstSatisfied(i) ==
    /\ i \in DOMAIN ActiveRules
    /\ Satisfies(args.score, ActiveRules[i])
    /\ \A j \in 1..(i - 1) : ~Satisfies(args.score, ActiveRules[j])

NoneSatisfied == \A i \in DOMAIN ActiveRules : ~Satisfies(args.score, ActiveRules[i])

ReturnsRule(rule) ==
    /\ outcome.kind = "return"
    /\ outcome.keys = {"category", "description"}
    /\ outcome.category = rule.category
    /\ outcome.description = rule.description

(***************************************************************************)
(* C1: the rule list is scanned in file order and the first rule the score *)
(* satisfies decides the result: its category and description are          *)
(* returned (when it carries no additional condition), the category of a   *)
(* later rule never is, and overlapping rules raise nothing and give no    *)
(* error.                                                                  *)
(***************************************************************************)
C1_FirstRuleWins ==
    (Done /\ HasActiveRules) =>
        \A i \in DOMAIN ActiveRules :
            FirstSatisfied(i) =>
                /\ outcome.kind = "return"
                /\ \A j \in DOMAIN ActiveRules :
                       j > i => outcome.category # ActiveRules[j].category
                /\ ~HasCondition(ActiveRules[i]) => ReturnsRule(ActiveRules[i])

\* two overlapping rules are both satisfied and the first one is returned
C1_Witness ==
    /\ Done /\ HasActiveRules
    /\ \E i, j \in DOMAIN ActiveRules :
           /\ i < j
           /\ FirstSatisfied(i)
           /\ Satisfies(args.score, ActiveRules[j])
           /\ ReturnsRule(ActiveRules[i])

(***************************************************************************)
(* C2: a range rule [low, high] matches exactly the totals with            *)
(* low <= total <= high, both bounds included, and with high null every    *)
(* total >= low, in general and in gender-keyed rule lists: the first rule *)
(* of the list is returned exactly for those totals, and a range rule that *)
(* is returned contains the total.                                         *)
(***************************************************************************)
C2_RangeInclusive ==
    (Done /\ HasActiveRules) =>
        \A i \in DOMAIN ActiveRules :
            LET rule == ActiveRules[i]
                low == rule.range[1]
                high == rule.range[2]
                within == low <= args.score /\ (high.null \/ args.score <= high.n)
            IN IsRange(rule) =>
                   /\ (i = 1) => (ReturnsRule(rule) <=> within)
                   /\ ReturnsRule(rule) => within

\* the total equals the upper bound of the first rule and the lower bound of
\* the adjacent one: the first rule is returned (gender-keyed list)
C2_Witness ==
    /\ Done /\ GenderKeyed /\ ValidGender
    /\ Len(ActiveRules) >= 2
    /\ IsRange(ActiveRules[1]) /\ ~ActiveRules[1].range[2].null
    /\ args.score = ActiveRules[1].range[2].n
    /\ IsRange(ActiveRules[2]) /\ ActiveRules[2].range[1] = args.score
    /\ ReturnsRule(ActiveRules[1])

(***************************************************************************)
(* C3: for an instrument with criteria_by_gender, a gender that is None,   *)
(* empty or no key of the table gives an error result that mentions        *)
(* gender, with no category and no rule evaluated; with a valid key the    *)
(* result comes from that gender's rule list only.                         *)
(***************************************************************************)
MentionsGender(text) ==
    text.tmpl \in {"Gender is required for this assessment.",
                   "Invalid gender '{}'. Expected 'M' or 'F'."}

C3_GenderGate ==
    (Done /\ GenderKeyed) =>
        IF ValidGender
        THEN ("category" \in outcome.keys /\ outcome.kind = "return") =>
                 \E i \in DOMAIN ActiveRules :
                     FirstSatisfied(i) /\ ReturnsRule(ActiveRules[i])
        ELSE /\ outcome.kind = "return"
             /\ outcome.keys = {"error"}
             /\ MentionsGender(outcome.error)
             /\ outcome.category = PyNone

\* a gender that is no key of the table, with a score its rules would match
C3_Witness ==
    /\ Done /\ GenderKeyed
    /\ args.gender = PyStr("other")
    /\ Satisfies(args.score, Target.criteria_by_gender["F"][1])
    /\ outcome.keys = {"error"}
    /\ MentionsGender(outcome.error)

(***************************************************************************)
(* C4: when the scan reaches a threshold rule with additional_condition,   *)
(* the total has reached the threshold and the condition field is          *)
(* supplied: a value equal to the expected one gives the rule's category,  *)
(* any other value gives the "condition not met" category, and that ends   *)
(* the evaluation: no later rule and no below-threshold default.           *)
(***************************************************************************)
SameValue(a, b) ==
    \/ a = b
    \/ <<a, b>> \in {<<PyBool(TRUE), PyInt(1)>>, <<PyInt(1), PyBool(TRUE)>>,
                     <<PyBool(FALSE), PyInt(0)>>, <<PyInt(0), PyBool(FALSE)>>}

FieldSupplied(rule) ==
    /\ ~args.additional_conditions.isNone
    /\ rule.additional_condition.field \in DOMAIN args.additional_conditions.d

SuppliedField(rule) == args.additional_conditions.d[rule.additional_condition.field]

ReturnsConditionNotMet ==
    /\ outcome.kind = "return"
    /\ outcome.keys = {"category", "description"}
    /\ outcome.category = PyStr("condition not met")

C4_ConditionTerminal ==
    (Done /\ General) =>
        \A i \in DOMAIN ActiveRules :
            LET rule == ActiveRules[i] IN
            (FirstSatisfied(i) /\ HasCondition(rule) /\ FieldSupplied(rule)) =>
                IF SameValue(SuppliedField(rule), rule.additional_condition.value)
                THEN ReturnsRule(rule)
                ELSE /\ ReturnsConditionNotMet
                     /\ outcome.description.fmt =
                            <<PyStr(rule.additional_condition.field),
                              rule.additional_condition.value, SuppliedField(rule)>>

\* the condition fails although a later rule is satisfied by the total
C4_Witness ==
    /\ Done /\ General
    /\ Len(ActiveRules) >= 2
    /\ FirstSatisfied(1) /\ HasCondition(ActiveRules[1]) /\ FieldSupplied(ActiveRules[1])
    /\ ~SameValue(SuppliedField(ActiveRules[1]), ActiveRules[1].additional_condition.value)
    /\ Satisfies(args.score, ActiveRules[2])
    /\ ReturnsConditionNotMet

(***************************************************************************)
(* C5: when the total reaches the threshold of a rule with                 *)
(* additional_condition and the field is not supplied (the mapping is      *)
(* None, is empty, or lacks the field), the result is an error result and  *)
(* no category.                                                            *)
(***************************************************************************)
C5_MissingConditionIsError ==
    (Done /\ General) =>
        \A i \in DOMAIN ActiveRules :
            (FirstSatisfied(i) /\ HasCondition(ActiveRules[i])
                 /\ ~FieldSupplied(ActiveRules[i])) =>
                /\ outcome.kind = "return"
                /\ outcome.keys = {"error"}

(***************************************************************************)
(* C6 as stated: the supplied field and the expected value are compared    *)
(* after tolerant boolean coercion: true, 1 and "true" count as one truthy *)
(* value, false, 0, "false", None and "" as one falsy value.               *)
(***************************************************************************)
TruthyForms == {PyBool(TRUE), PyInt(1), PyStr("true")}
FalsyForms == {PyBool(FALSE), PyInt(0), PyStr("false"), PyNone, PyStr("")}

C7_BelowThresholdNormal ==
    (Done /\ General /\ Len(Target.criteria) >= 1
          /\ IsThreshold(Target.criteria[1]) /\ NoneSatisfied) =>
        /\ outcome.kind = "return"
        /\ outcome.keys = {"category", "description"}
        /\ outcome.category = PyStr("normal")
        /\ ~outcome.description.isNone

\* a conditional threshold rule, a total below it, no conditions supplied
C7_Witness ==
    /\ Done /\ General
    /\ Len(Target.criteria) >= 1
    /\ IsThreshold(Target.criteria[1]) /\ HasCondition(Target.criteria[1])
    /\ args.additional_conditions = NoDict
    /\ args.score < Target.criteria[1].threshold
    /\ NoneSatisfied
    /\ outcome.category = PyStr("normal")

(***************************************************************************)
(* C8: for a range-style instrument, general or gender-keyed with a valid  *)
(* gender, a total that no rule matches gives an error result with no      *)
(* category; nothing is raised and nothing defaults to normal.             *)
(***************************************************************************)
RangeStyle ==
    Len(ActiveRules) >= 1 /\ \A i \in DOMAIN ActiveRules : IsRange(ActiveRules[i])

C8_NoMatchIsError ==
    (Done /\ HasActiveRules /\ RangeStyle /\ NoneSatisfied) =>
        /\ outcome.kind = "return"
        /\ "error" \in outcome.keys
        /\ outcome.category = PyNone

(***************************************************************************)
(* C9: for a name that no assessment of the criteria table has, whatever   *)
(* the score, the gender and the conditions, the result is the "not found" *)
(* error result naming the requested instrument; nothing is raised, and    *)
(* neither the gender check nor a rule comes first.                        *)
(***************************************************************************)
C9_UnknownInstrument ==
    (Done /\ disk.exists /\ Named = {}) =>
        /\ outcome.kind = "return"
        /\ outcome.keys = {"error"}
        /\ outcome.error.tmpl = "Assessment '{}' not found."
        /\ outcome.error.fmt = <<PyStr(args.assessment_name)>>
        /\ outcome.category = PyNone

\* a name absent from a file that holds a gender-keyed instrument, requested
\* without a gender
C9_Witness ==
    /\ Done /\ disk.exists /\ Named = {}
    /\ \E i \in DOMAIN disk.assessments :
           "criteria_by_gender" \in disk.assessments[i].keys
    /\ args.gender = PyNone
    /\ outcome.keys = {"error"}
    /\ outcome.error.tmpl = "Assessment '{}' not found."

StrValue(chars) == [t |-> "str", chars |-> chars, num |-> 0, den |-> 1]
IntValue(i) == [t |-> "int", chars |-> <<>>, num |-> i, den |-> 1]
FloatValue(num, den) == [t |-> "float", chars |-> <<>>, num |-> num, den |-> den]
BoolValue(b) == [t |-> "bool", chars |-> <<>>, num |-> IF b THEN 1 ELSE 0, den |-> 1]
ListValue == [t |-> "list", chars |-> <<>>, num |-> 0, den |-> 1]
NoneValue == [t |-> "NoneType", chars |-> <<>>, num |-> 0, den |-> 1]

FloatInf == FloatValue(1, 0)
FloatNaN == FloatValue(0, 0)

\* what a call returns or raises
Returns(value) == [NoReply EXCEPT !.kind = "return", !.value = value]
Raises(exc) == [NoReply EXCEPT !.kind = "raise", !.exc = exc]
HTTPException(status_code, detail) ==
    [NoReply EXCEPT !.kind = "raise", !.exc = "HTTPException",
                    !.status_code = status_code, !.detail = detail]

\* str.strip() and str.lower()
Whitespace == {" ", "\t", "\n"}
UpperCase ==
    <<"A", "B", "C", "D", "E", "F", "G", "H", "I", "J", "K", "L", "M",
      "N", "O", "P", "Q", "R", "S", "T", "U", "V", "W", "X", "Y", "Z">>
LowerCase ==
    <<"a", "b", "c", "d", "e", "f", "g", "h", "i", "j", "k", "l", "m",
      "n", "o", "p", "q", "r", "s", "t", "u", "v", "w", "x", "y", "z">>

RECURSIVE lstrip(_)
lstrip(chars) ==
    IF chars # <<>> /\ Head(chars) \in Whitespace THEN lstrip(Tail(chars))
    ELSE chars

RECURSIVE rstrip(_)
rstrip(chars) ==
    IF chars # <<>> /\ chars[Len(chars)] \in Whitespace
    THEN rstrip(SubSeq(chars, 1, Len(chars) - 1))
    ELSE chars

strip(chars) == rstrip(lstrip(chars))

lower(chars) ==
    [i \in DOMAIN chars |->
        IF \E k \in DOMAIN UpperCase : UpperCase[k] = chars[i]
        THEN LowerCase[CHOOSE k \in DOMAIN UpperCase : UpperCase[k] = chars[i]]
        ELSE chars[i]]

\* the table of worded answers, by key
string_mappings ==
    {<<<<"n", "e", "v", "e", "r">>, 0>>,
     <<<<"n", "o">>, 0>>,
     <<<<"n", "o", "n", "e">>, 0>>,
     <<<<"n", "o", "t", " ", "a", "t", " ", "a", "l", "l">>, 0>>,
     <<<<"r", "a", "r", "e", "l", "y">>, 1>>,
     <<<<"s", "o", "m", "e", "t", "i", "m", "e", "s">>, 1>>,
     <<<<"m", "i", "l", "d">>, 1>>,
     <<<<"s", "l", "i", "g", "h", "t", "l", "y">>, 1>>,
     <<<<"o", "f", "t", "e", "n">>, 2>>,
     <<<<"m", "o", "d", "e", "r", "a", "t", "e">>, 2>>,
     <<<<"m", "o", "d", "e", "r", "a", "t", "e", "l", "y">>, 2>>,
     <<<<"a", "l", "w", "a", "y", "s">>, 3>>,
     <<<<"s", "e", "v", "e", "r", "e">>, 3>>,
     <<<<"v", "e", "r", "y">>, 3>>,
     <<<<"e", "x", "t", "r", "e", "m", "e", "l", "y">>, 3>>,
     <<<<"y", "e", "s">>, 1>>,
     <<<<"t", "r", "u", "e">>, 1>>}

(***************************************************************************)
(* float(str) for the numerals without exponent: an optional sign, then    *)
(* digits with at most one point and at least one digit, or inf, infinity  *)
(* or nan in any letter case; blanks around the numeral are dropped.       *)
(* Every other text raises ValueError.                                     *)
(***************************************************************************)
Digits == <<"0", "1", "2", "3", "4", "5", "6", "7", "8", "9">>
IsDigit(c) == \E k \in DOMAIN Digits : Digits[k] = c
DigitValue(c) == (CHOOSE k \in DOMAIN Digits : Digits[k] = c) - 1

\* the digits of chars read as a numeral scaled by its fraction digits
RECURSIVE ParseDigits(_, _, _, _)
ParseDigits(chars, num, den, seen_point) ==
    IF chars = <<>> THEN [num |-> num, den |-> den]
    ELSE IF Head(chars) = "."
         THEN ParseDigits(Tail(chars), num, den, TRUE)
         ELSE ParseDigits(Tail(chars), 10 * num + DigitValue(Head(chars)),
                          IF seen_point THEN 10 * den ELSE den, seen_point)

float_of_str(chars) ==
    LET Unsigned(sign, rest) ==
            IF rest \in {<<"i", "n", "f">>,
                         <<"i", "n", "f", "i", "n", "i", "t", "y">>}
            THEN Returns(FloatValue(sign, 0))
            ELSE IF rest = <<"n", "a", "n">>
            THEN Returns(FloatNaN)
            ELSE IF /\ \A i \in DOMAIN rest : IsDigit(rest[i]) \/ rest[i] = "."
                    /\ \E i \in DOMAIN rest : IsDigit(rest[i])
                    /\ Cardinality({i \in DOMAIN rest : rest[i] = "."}) <= 1
            THEN Returns(FloatValue(sign * ParseDigits(rest, 0, 1, FALSE).num,
                                    ParseDigits(rest, 0, 1, FALSE).den))
            ELSE Raises("ValueError")
        Signed(text) ==
            IF text # <<>> /\ Head(text) \in {"+", "-"}
            THEN Unsigned(IF Head(text) = "-" THEN -1 ELSE 1, Tail(text))
            ELSE Unsigned(1, text)
    IN Signed(lower(strip(chars)))

\* float(value)
float(value) ==
    CASE value.t = "str" -> float_of_str(value.chars)
      [] value.t \in {"int", "bool"} -> Returns(FloatValue(value.num, 1))
      [] value.t = "float" -> Returns(value)
      [] OTHER -> Raises("TypeError")

\* int(x) of a float x: truncation towards zero
int_of_float(x) ==
    IF x.den = 0
    THEN IF x.num = 0 THEN Raises("ValueError") ELSE Raises("OverflowError")
    ELSE IF x.num >= 0 THEN Returns(x.num \div x.den)
         ELSE Returns(-((-x.num) \div x.den))

\* int(float(value))
int_float(value) ==
    LET Truncated(f) == IF f.kind = "raise" THEN f ELSE int_of_float(f.value)
    IN Truncated(float(value))

min(a, b) == IF a <= b THEN a ELSE b
max(a, b) == IF a >= b THEN a ELSE b

\* try: int(float(value)) except (ValueError, TypeError): 0
numeric_or_zero(value) ==
    LET Caught(n) == IF n.kind = "raise" /\ n.exc \in {"ValueError", "TypeError"}
                     THEN Returns(0)
                     ELSE n
    IN Caught(int_float(value))

_convert_to_numeric(value, max_value) ==
    LET Mapped(key) ==
            IF \E m \in string_mappings : m[1] = key
            THEN Returns((CHOOSE m \in string_mappings : m[1] = key)[2])
            ELSE numeric_or_zero(StrValue(key))
        Clamped(numeric_value) ==
            IF numeric_value.kind = "raise" THEN numeric_value
            ELSE Returns(max(0, min(numeric_value.value, max_value)))
    IN Clamped(IF value.t = "str" THEN Mapped(lower(strip(value.chars)))
               ELSE numeric_or_zero(value))

(***************************************************************************)
(* Inputs of the conversion: worded answers as the table spells them and   *)
(* in other letter cases, numerals as text and as numbers, texts that are  *)
(* no numeral, the IEEE specials, a list and None.                         *)
(***************************************************************************)
MaxValue == 4          \* largest item maximum tried

MappedWords == {m[1] : m \in string_mappings}
WordVariants ==
    {<<"N", "E", "V", "E", "R">>,
     <<"A", "l", "w", "a", "y", "s">>,
     <<"S", "o", "m", "e", "T", "i", "m", "e", "s">>,
     <<" ", "n", "e", "v", "e", "r", " ">>,
     <<"Y", "e", "s">>,
     <<"T", "R", "U", "E">>,
     <<"N", "o", "t", " ", "A", "t", " ", "A", "l", "l">>}
NumeralTexts ==
    {<<"0">>,
     <<"3">>,
     <<"5">>,
     <<"2", ".", "5">>,
     <<"-", "1">>,
     <<"+", "2">>,
     <<" ", "3", " ">>,
     <<"9", "9", "9">>,
     <<".", "5">>,
     <<"3", ".">>,
     <<"-", "0", ".", "5">>}
OtherTexts ==
    {<<"i", "n", "v", "a", "l", "i", "d">>,
     <<>>,
     <<"f", "a", "l", "s", "e">>,
     <<"1", ".", "2", ".", "3">>,
     <<"-", "-", "1">>,
     <<"q", "1">>,
     <<"-">>,
     <<".">>}
SpecialTexts ==
    {<<"i", "n", "f">>,
     <<"I", "n", "f", "i", "n", "i", "t", "y">>,
     <<"-", "i", "n", "f">>,
     <<"n", "a", "n">>,
     <<"N", "a", "N">>}

ResponseValues ==
    {StrValue(c) : c \in MappedWords \cup WordVariants \cup NumeralTexts
                         \cup OtherTexts \cup SpecialTexts}
    \cup {IntValue(i) : i \in -1..(MaxValue + 1)}
    \cup {FloatValue(5, 2), FloatValue(-5, 2), FloatValue(7, 1), FloatInf,
          FloatValue(-1, 0), FloatNaN}
    \cup {BoolValue(TRUE), BoolValue(FALSE), ListValue, NoneValue}

\* the rule evaluator is not involved
InterpreterIdle ==
    /\ disk = NoFile
    /\ args = NoCall
    /\ loaded = NoFile
    /\ outcome = Pending
    /\ snap = NoSnap

ConvertCall(value, max_value) ==
    [op |-> "_convert_to_numeric", value |-> value, max_value |-> max_value]

InitConvert ==
    /\ request \in {ConvertCall(v, m) : v \in ResponseValues, m \in 0..MaxValue}
    /\ reply = NoReply
    /\ surveys = <<>>
    /\ InterpreterIdle
    /\ ServicesIdle

\* one call of _convert_to_numeric
ConvertToNumeric ==
    /\ reply.kind = "pending"
    /\ reply' = _convert_to_numeric(request.value, request.max_value)
    /\ UNCHANGED <<disk, args, loaded, outcome, snap, request, surveys>>
    /\ UNCHANGED services

NextConvert == ConvertToNumeric

SpecConvert == InitConvert /\ [][NextConvert]_vars

(***************************************************************************)
(* C11: for every response value and every max_value >= 0,                 *)
(* _convert_to_numeric never raises and returns an integer in              *)
(* [0, max_value].                                                         *)
(***************************************************************************)
Converted == request.op = "_convert_to_numeric" /\ reply.kind # "pending"

C11_NeverRaisesInRange ==
    Converted => /\ reply.kind = "return"
                 /\ reply.value \in 0..request.max_value

(***************************************************************************)
(* The calculators.  responses is a dict, here a function from its keys.   *)
(* A calculator ends with float(total_score); an exception of an item's    *)
(* conversion leaves the loop and the function.                            *)
(***************************************************************************)
question_key(i) == "q" \o ToString(i)

\* for i in range(first, expected_questions + 1): total_score += ...
RECURSIVE SumQuestions(_, _, _, _, _)
SumQuestions(responses, i, expected_questions, max_value, total_score) ==
    LET Added(response_value) ==
            IF response_value.kind = "raise" THEN response_value
            ELSE SumQuestions(responses, i + 1, expected_questions, max_value,
                              total_score + response_value.value)
    IN IF i > expected_questions THEN Returns(total_score)
       ELSE IF question_key(i) \in DOMAIN responses
            THEN Added(_convert_to_numeric(responses[question_key(i)], max_value))
            ELSE SumQuestions(responses, i + 1, expected_questions, max_value,
                              total_score)

\* float(total_score) of what the loop left
FloatOf(r) == IF r.kind = "raise" THEN r ELSE Returns(FloatValue(r.value, 1))

score_audit(responses) == FloatOf(SumQuestions(responses, 1, 10, 4, 0))

score_bdi(responses) == FloatOf(SumQuestions(responses, 1, 21, 3, 0))

score_bai(responses) == FloatOf(SumQuestions(responses, 1, 21, 3, 0))

\* responses.get(key, default)
get(responses, key, default) ==
    IF key \in DOMAIN responses THEN responses[key] ELSE default

psqi_components ==
    <<"sleep_quality", "sleep_latency", "sleep_duration", "sleep_efficiency",
      "sleep_disturbances", "sleep_medication", "daytime_dysfunction">>

RECURSIVE SumComponents(_, _, _)
SumComponents(responses, i, total_score) ==
    LET Added(comp) ==
            IF comp.kind = "raise" THEN comp
            ELSE SumComponents(responses, i + 1, total_score + comp.value)
    IN IF i > Len(psqi_components) THEN Returns(total_score)
       ELSE Added(_convert_to_numeric(
                      get(responses, psqi_components[i], IntValue(0)), 3))

score_psqi(responses) == FloatOf(SumComponents(responses, 1, 0))

\* bool(value)
bool(value) ==
    CASE value.t = "str" -> value.chars # <<>>
      [] value.t \in {"int", "bool", "float"} -> value.num # 0 \/ value.den = 0
      [] OTHER -> FALSE

yes_answers == {<<"y", "e", "s">>, <<"y">>, <<"1">>, <<"t", "r", "u", "e">>}

RECURSIVE CountYes(_, _, _)
CountYes(responses, i, part1_score) ==
    IF i > 13 THEN part1_score
    ELSE IF question_key(i) \in DOMAIN responses
         THEN LET response == responses[question_key(i)]
                  yes == IF response.t = "str"
                         THEN lower(response.chars) \in yes_answers
                         ELSE bool(response)
              IN CountYes(responses, i + 1, part1_score + IF yes THEN 1 ELSE 0)
         ELSE CountYes(responses, i + 1, part1_score)

score_k_mdq(responses) ==
    LET part1_score == CountYes(responses, 1, 0)
        clustering == get(responses, "clustering", BoolValue(FALSE))
        clustering_score == IF bool(clustering) THEN 1 ELSE 0
        Total(impairment) ==
            IF impairment.kind = "raise" THEN impairment
            ELSE Returns(FloatValue(part1_score + clustering_score
                                    + impairment.value, 1))
    IN Total(_convert_to_numeric(get(responses, "impairment", IntValue(0)), 3))

scoring_functions == {"AUDIT", "PSQI", "BDI", "BAI", "K-MDQ"}

Calculator(survey_type, responses) ==
    CASE survey_type = "AUDIT" -> score_audit(responses)
      [] survey_type = "PSQI" -> score_psqi(responses)
      [] survey_type = "BDI" -> score_bdi(responses)
      [] survey_type = "BAI" -> score_bai(responses)
      [] survey_type = "K-MDQ" -> score_k_mdq(responses)

score_survey(survey_type, responses) ==
    LET Scored(r) == IF r.kind = "raise" THEN HTTPException(400, "Error scoring")
                     ELSE r
    IN IF survey_type \notin scoring_functions
       THEN HTTPException(400, "Unknown survey type")
       ELSE Scored(Calculator(survey_type, responses))

(***************************************************************************)
(* Inputs of the calculators: response mappings of at most MaxItems keys,  *)
(* questions inside and outside q1..qN and the named PSQI and K-MDQ        *)
(* fields, with answers that are numerals, numbers, worded, unparseable    *)
(* or infinite.                                                            *)
(***************************************************************************)
MaxItems == 2          \* most keys of a generated response mapping

ResponseKeys ==
    {"q1", "q2", "q10", "q11", "q21", "q22", "sleep_quality", "clustering",
     "impairment"}

Answers ==
    {StrValue(<<"3">>), IntValue(5), StrValue(<<"o", "f", "t", "e", "n">>),
     StrValue(<<"y", "e", "s">>), StrValue(<<"i", "n", "v", "a", "l", "i", "d">>),
     StrValue(<<"i", "n", "f">>), StrValue(<<"n", "o">>)}

ResponseMappings ==
    UNION {[keys -> Answers] :
              keys \in {k \in SUBSET ResponseKeys : Cardinality(k) <= MaxItems}}

SurveyTypes ==
    {"AUDIT", "PSQI", "BDI", "BAI", "K-MDQ", "audit", "Audit", "bdi", "K_MDQ",
     "INVALID_SURVEY", ""}

ScoreCall(op, survey_type, responses) ==
    [op |-> op, survey_type |-> survey_type, responses |-> responses]

InitScore ==
    /\ request \in
         {ScoreCall("score_audit", "AUDIT", r) : r \in ResponseMappings}
         \cup {ScoreCall("score_bdi", "BDI", r) : r \in ResponseMappings}
         \cup {ScoreCall("score_bai", "BAI", r) : r \in ResponseMappings}
         \cup {ScoreCall("score_survey", t, r) :
                  t \in SurveyTypes, r \in ResponseMappings}
    /\ reply = NoReply
    /\ surveys = <<>>
    /\ InterpreterIdle
    /\ ServicesIdle

ScoreAudit ==
    /\ request.op = "score_audit" /\ reply.kind = "pending"
    /\ reply' = score_audit(request.responses)
    /\ UNCHANGED <<disk, args, loaded, outcome, snap, request, surveys>>
    /\ UNCHANGED services

ScoreBdi ==
    /\ request.op = "score_bdi" /\ reply.kind = "pending"
    /\ reply' = score_bdi(request.responses)
    /\ UNCHANGED <<disk, args, loaded, outcome, snap, request, surveys>>
    /\ UNCHANGED services

ScoreBai ==
    /\ request.op = "score_bai" /\ reply.kind = "pending"
    /\ reply' = score_bai(request.responses)
    /\ UNCHANGED <<disk, args, loaded, outcome, snap, request, surveys>>
    /\ UNCHANGED services

ScoreSurvey ==
    /\ request.op = "score_survey" /\ reply.kind = "pending"
    /\ reply' = score_survey(request.survey_type, request.responses)
    /\ UNCHANGED <<disk, args, loaded, outcome, snap, request, surveys>>
    /\ UNCHANGED services

NextScore == ScoreAudit \/ ScoreBdi \/ ScoreBai \/ ScoreSurvey

SpecScore == InitScore /\ [][NextScore]_vars

(***************************************************************************)
(* C12: score_audit (N = 10, item maximum 4), score_bdi and score_bai      *)
(* (N = 21, item maximum 3) return, for every response mapping, the sum    *)
(* over the present keys q1..qN of the clamped item value, an unparseable  *)
(* item counting 0 and keys outside q1..qN being ignored; the total lies   *)
(* in [0, N * item maximum].                                               *)
(***************************************************************************)
FlatSum == request.op \in {"score_audit", "score_bdi", "score_bai"}
Questions == IF request.op = "score_audit" THEN 10 ELSE 21
ItemMaximum == IF request.op = "score_audit" THEN 4 ELSE 3

\* the clamped value of an item, 0 for an item that no integer can be read from
ItemValue(value, max_value) ==
    LET n == int_float(value)
        key == lower(strip(value.chars))
        v == IF value.t = "str" /\ \E m \in string_mappings : m[1] = key
             THEN (CHOOSE m \in string_mappings : m[1] = key)[2]
             ELSE IF n.kind = "return" THEN n.value ELSE 0
    IN IF v < 0 THEN 0 ELSE IF v > max_value THEN max_value ELSE v

RECURSIVE SumOver(_, _)
SumOver(items, f) ==
    IF items = {} THEN 0
    ELSE LET i == CHOOSE x \in items : TRUE
         IN ItemValue(f[question_key(i)], ItemMaximum) + SumOver(items \ {i}, f)

PresentQuestions ==
    {i \in 1..Questions : question_key(i) \in DOMAIN request.responses}

C12_FlatSum ==
    FlatSum /\ reply.kind # "pending" =>
        /\ reply.kind = "return"
        /\ reply.value = FloatValue(SumOver(PresentQuestions, request.responses), 1)
        /\ reply.value.num \in 0..(Questions * ItemMaximum)

(***************************************************************************)
(* C13: score_survey fails with 400 'Unknown survey type' exactly when     *)
(* survey_type is not one of AUDIT, PSQI, BDI, BAI, K-MDQ as spelled; for  *)
(* each of the five it returns what that instrument's calculator returns,  *)
(* for every response mapping, without raising.                            *)
(***************************************************************************)
Dispatched == request.op = "score_survey" /\ reply.kind # "pending"
UnknownSurveyType ==
    reply.kind = "raise" /\ reply.exc = "HTTPException"
        /\ reply.status_code = 400 /\ reply.detail = "Unknown survey type"

C13_Dispatch ==
    Dispatched =>
        /\ UnknownSurveyType <=>
               request.survey_type \notin {"AUDIT", "PSQI", "BDI", "BAI", "K-MDQ"}
        /\ request.survey_type \in {"AUDIT", "PSQI", "BDI", "BAI", "K-MDQ"} =>
               /\ reply.kind = "return"
               /\ reply = Calculator(request.survey_type, request.responses)

(***************************************************************************)
(* get_score_interpretation (scoring.py) hands the score to the rule       *)
(* evaluator and turns an error result or an exception into a result with  *)
(* a category; evaluate_psqi (psqi_scoring.py) classifies a total by       *)
(* itself.  The Korean categories are glossed: "unsupported" (scoring.py   *)
(* line 277), "cannot interpret" (line 286), "good sleep" and "poor sleep" *)
(* (psqi_scoring.py lines 135 and 137).                                    *)
(***************************************************************************)
CatUnsupported == PyStr("unsupported")
CatUninterpretable == PyStr("cannot interpret")
GoodSleep == "good sleep"
PoorSleep == "poor sleep"

\* int(str) for the numerals: an optional sign and digits
int_of_str(chars) ==
    LET Unsigned(sign, rest) ==
            IF rest # <<>> /\ \A i \in DOMAIN rest : IsDigit(rest[i])
            THEN Returns(sign * ParseDigits(rest, 0, 1, FALSE).num)
            ELSE Raises("ValueError")
        Signed(text) ==
            IF text # <<>> /\ Head(text) \in {"+", "-"}
            THEN Unsigned(IF Head(text) = "-" THEN -1 ELSE 1, Tail(text))
            ELSE Unsigned(1, text)
    IN Signed(strip(chars))

\* int(value)
int(value) ==
    CASE value.t = "str" -> int_of_str(value.chars)
      [] value.t \in {"int", "bool"} -> Returns(value.num)
      [] value.t = "float" -> int_of_float(value)
      [] OTHER -> Raises("TypeError")

survey_type_mapping == {"AUDIT", "PSQI", "BDI", "BAI", "K-MDQ"}

\* survey_type_mapping.get(survey_type, survey_type): every key maps to itself
mapped_survey_type(survey_type) ==
    IF survey_type \in survey_type_mapping THEN survey_type ELSE survey_type

\* the try block up to the call of the rule evaluator
TryInterpret(data, survey_type, score, gender) ==
    LET Interpreted(n) ==
            IF n.kind = "raise" THEN Raise(n.exc)
            ELSE interpret_rating_scale(data, mapped_survey_type(survey_type),
                                        n.value, gender, NoDict)
    IN Interpreted(int(score))

\* mutant: the interpreter's result is handed on as it is
get_score_interpretation_AsIs(data, survey_type, score, gender) ==
    LET Handled(result) ==
            IF result.kind = "raise"
            THEN ReturnCategory(CatUninterpretable,
                                Text("Score: {} - Error: {}",
                                     <<score, PyStr(result.exc)>>))
            ELSE result
    IN Handled(TryInterpret(data, survey_type, score, gender))

get_score_interpretation(data, survey_type, score, gender) ==
    LET Handled(result) ==
            IF result.kind = "raise"
            THEN ReturnCategory(CatUninterpretable,
                                Text("Score: {} - Error: {}",
                                     <<score, PyStr(result.exc)>>))
            ELSE IF "error" \in result.keys
                 THEN ReturnCategory(CatUnsupported,
                                     Text("Score: {} - {}", <<score, result.error>>))
                 ELSE result
    IN Handled(TryInterpret(data, survey_type, score, gender))

evaluate_psqi(total_score) == IF total_score <= 5 THEN GoodSleep ELSE PoorSleep

(***************************************************************************)
(* Inputs: the sample table, the sample table with an entry for PSQI, an   *)
(* empty table and no file; the five survey types and an unknown one;      *)
(* scores that are ints, floats or None; totals of the PSQI range.         *)
(***************************************************************************)
PSQIEntry ==
    Assessment("PSQI", <<Label(RangeRule(0, JNum(1), PyNone, NoText), 1),
                         Label(RangeRule(2, JNull, PyNone, NoText), 2)>>)

InterpretationFiles ==
    {NoFile, File(<<>>), File(<<BDI, AUDIT, KMDQ, OCIR>>),
     File(<<BDI, AUDIT, KMDQ, OCIR, PSQIEntry>>)}

ScoreValues ==
    {IntValue(sc) : sc \in Scores}
    \cup {IntValue(-1), FloatValue(5, 2), FloatInf, FloatNaN, NoneValue}

InterpretationCall(survey_type, score, gender) ==
    [op |-> "get_score_interpretation", survey_type |-> survey_type,
     score |-> score, gender |-> gender, total_score |-> 0]

EvaluateCall(total_score) ==
    [op |-> "evaluate_psqi", survey_type |-> "PSQI", score |-> NoneValue,
     gender |-> PyNone, total_score |-> total_score]

PsqiTotals == 0..21

InitInterpretation ==
    /\ disk \in InterpretationFiles
    /\ request \in
         {InterpretationCall(t, sc, g) :
             t \in survey_type_mapping \cup {"UNKNOWN"}, sc \in ScoreValues,
             g \in {PyNone, PyStr("M"), PyStr("other")}}
         \cup {EvaluateCall(total) : total \in PsqiTotals}
    /\ args = NoCall
    /\ loaded = NoFile
    /\ outcome = Pending
    /\ snap = NoSnap
    /\ reply = Pending
    /\ surveys = <<>>
    /\ ServicesIdle

\* one call of get_score_interpretation; the call of the rule evaluator it
\* makes, when int(score) lets it come to that, is recorded with the table
\* that call loads
GetScoreInterpretation ==
    /\ request.op = "get_score_interpretation" /\ reply.kind = "pending"
    /\ reply' = get_score_interpretation(disk, request.survey_type, request.score,
                                         request.gender)
    /\ IF int(request.score).kind = "return"
       THEN /\ args' = Call(mapped_survey_type(request.survey_type),
                            int(request.score).value, request.gender, NoDict)
            /\ loaded' = disk
            /\ outcome' = TryInterpret(disk, request.survey_type, request.score,
                                       request.gender)
       ELSE UNCHANGED <<args, loaded, outcome>>
    /\ UNCHANGED <<disk, snap, request, surveys>>
    /\ UNCHANGED services

\* one call of evaluate_psqi
EvaluatePsqi ==
    /\ request.op = "evaluate_psqi" /\ reply.kind = "pending"
    /\ reply' = ReturnCategory(PyStr(evaluate_psqi(request.total_score)), NoText)
    /\ UNCHANGED <<disk, args, loaded, outcome, snap, request, surveys>>
    /\ UNCHANGED services

NextInterpretation == GetScoreInterpretation \/ EvaluatePsqi

SpecInterpretation == InitInterpretation /\ [][NextInterpretation]_vars

(***************************************************************************)
(* C14: get_score_interpretation never raises and never returns an         *)
(* 'error' key; its result always holds 'category' and 'description'; an   *)
(* error result of the interpreter becomes the category "unsupported" with *)
(* the error text in the description, an exception of the interpreter the  *)
(* category "cannot interpret".                                            *)
(***************************************************************************)
Interpreted == request.op = "get_score_interpretation" /\ reply.kind # "pending"
InterpreterError == outcome.kind = "return" /\ "error" \in outcome.keys
InterpreterRaised == outcome.kind = "raise"
InDescription(text) ==
    ~reply.description.isNone
        /\ \E i \in DOMAIN reply.description.fmt : reply.description.fmt[i] = text

C14_AlwaysCategory ==
    Interpreted =>
        /\ reply.kind = "return"
        /\ "error" \notin reply.keys
        /\ {"category", "description"} \subseteq reply.keys
        /\ InterpreterError =>
               reply.category = CatUnsupported /\ InDescription(outcome.error)
        /\ InterpreterRaised => reply.category = CatUninterpretable

C14_Witness ==
    /\ Interpreted /\ InterpreterError
    /\ reply.category = CatUnsupported
    /\ outcome.error = MsgGenderRequired

(***************************************************************************)
(* C19: a sleep-quality total is "good sleep" exactly when it is <= 5 and  *)
(* "poor sleep" exactly when it is > 5, and interpreting a sleep-quality   *)
(* score never consults the criteria table or the rule evaluator, also not *)
(* when get_score_interpretation is called with survey type PSQI.          *)
(***************************************************************************)
Classified == request.op = "evaluate_psqi" /\ reply.kind # "pending"
RuleEvaluatorUsed == outcome.kind # "pending"

C19_SleepBypassesRules ==
    /\ Classified =>
           /\ reply.category = PyStr(GoodSleep) <=> request.total_score <= 5
           /\ reply.category = PyStr(PoorSleep) <=> request.total_score > 5
    /\ request.survey_type = "PSQI" /\ reply.kind # "pending" => ~RuleEvaluatorUsed

(***************************************************************************)
(* Python floats are IEEE 754 binary64 numbers, and                        *)
(* calculate_sleep_efficiency computes in them.  A double is               *)
(* sign * m * 2^e with m = 0 or 2^52 <= m < 2^53; m is held as four limbs  *)
(* of 24 bits, least significant first.  Every operation gives the exact   *)
(* result rounded to nearest, ties to even.  Overflow and subnormals are   *)
(* out of reach of the values that occur (magnitudes between 1/60 and      *)
(* 10^4).                                                                  *)
(***************************************************************************)
LimbBase == 16777216
HalfBase == LimbBase \div 2
Limbs == 1..4

Big(n) ==
    [i \in Limbs |-> IF i = 1 THEN n % LimbBase
                     ELSE IF i = 2 THEN n \div LimbBase ELSE 0]
IsZero(x) == \A i \in Limbs : x[i] = 0
IsOdd(x) == x[1] % 2 = 1
Twice(x) ==
    [i \in Limbs |-> ((2 * x[i]) % LimbBase)
                     + (IF i > 1 THEN x[i - 1] \div HalfBase ELSE 0)]
Half(x) ==
    [i \in Limbs |-> (x[i] \div 2)
                     + (IF i < 4 THEN (x[i + 1] % 2) * HalfBase ELSE 0)]
Less(a, b) == \E i \in Limbs : a[i] < b[i] /\ \A j \in (i + 1)..4 : a[j] = b[j]

RECURSIVE AddLimbs(_, _, _, _)
AddLimbs(a, b, i, carry) ==
    IF i > 4 THEN <<>>
    ELSE <<(a[i] + b[i] + carry) % LimbBase>>
         \o AddLimbs(a, b, i + 1, (a[i] + b[i] + carry) \div LimbBase)

\* a - b for a >= b
RECURSIVE SubLimbs(_, _, _, _)
SubLimbs(a, b, i, borrow) ==
    IF i > 4 THEN <<>>
    ELSE <<(a[i] - b[i] - borrow + LimbBase) % LimbBase>>
         \o SubLimbs(a, b, i + 1, IF a[i] - b[i] - borrow < 0 THEN 1 ELSE 0)

\* a * k for a small k
RECURSIVE MulLimbs(_, _, _, _)
MulLimbs(a, k, i, carry) ==
    IF i > 4 THEN <<>>
    ELSE <<(a[i] * k + carry) % LimbBase>>
         \o MulLimbs(a, k, i + 1, (a[i] * k + carry) \div LimbBase)

\* The arithmetic below is applied as functions: a function's argument is
\* evaluated once, before the function is applied.
ShiftLeft[x \in Seq(Nat), n \in Nat] ==
    IF n = 0 THEN x ELSE ShiftLeft[Twice(x), n - 1]

\* x >= 2^52, 2^53, 2^54
Has53Bits(x) == x[4] > 0 \/ x[3] >= 16
Has54Bits(x) == x[4] > 0 \/ x[3] >= 32
Has55Bits(x) == x[4] > 0 \/ x[3] >= 64

Double(sign, m, e) == [sign |-> sign, m |-> m, e |-> e]
DoubleZero == Double(1, Big(0), 0)
Doubles == [sign : {-1, 1}, m : Seq(Nat), e : Int]

\* the double nearest to sign * x * 2^e, ties to even; sticky tells that the
\* exact value lies above x * 2^e by less than one unit of x
RoundDouble[sign \in {-1, 1}, x \in Seq(Nat), e \in Int, sticky \in BOOLEAN] ==
    IF IsZero(x) THEN DoubleZero
    ELSE IF Has55Bits(x) THEN RoundDouble[sign, Half(x), e + 1, sticky \/ IsOdd(x)]
    ELSE IF Has54Bits(x)
    THEN LET m == Half(x)
             r == IF IsOdd(x) /\ (sticky \/ IsOdd(m))
                  THEN AddLimbs(m, Big(1), 1, 0) ELSE m
         IN IF Has54Bits(r) THEN Double(sign, Half(r), e + 2)
            ELSE Double(sign, r, e + 1)
    ELSE IF ~Has53Bits(x) THEN RoundDouble[sign, Twice(x), e - 1, sticky]
    ELSE Double(sign, x, e)

\* float(n) of an int n
DoubleOfInt[n \in Int] ==
    RoundDouble[IF n < 0 THEN -1 ELSE 1, Big(IF n < 0 THEN -n ELSE n), 0, FALSE]

DoubleNeg[x \in Doubles] == [x EXCEPT !.sign = -@]

\* x + y
DoubleAdd[x \in Doubles, y \in Doubles] ==
    IF IsZero(x.m) THEN y
    ELSE IF IsZero(y.m) THEN x
    ELSE LET e == min(x.e, y.e)
             a == ShiftLeft[x.m, x.e - e]
             b == ShiftLeft[y.m, y.e - e]
         IN IF x.sign = y.sign
            THEN RoundDouble[x.sign, AddLimbs(a, b, 1, 0), e, FALSE]
            ELSE IF Less(a, b)
                 THEN RoundDouble[y.sign, SubLimbs(b, a, 1, 0), e, FALSE]
                 ELSE RoundDouble[x.sign, SubLimbs(a, b, 1, 0), e, FALSE]

\* x - y
DoubleSub[x \in Doubles, y \in Doubles] == DoubleAdd[x, DoubleNeg[y]]

\* one step of long division: the next quotient bit of r / d
DivideStep[r \in Seq(Nat), d \in Seq(Nat), q \in Seq(Nat), fits \in BOOLEAN] ==
    [q |-> [Twice(q) EXCEPT ![1] = @ + (IF fits THEN 1 ELSE 0)],
     r |-> IF fits THEN SubLimbs(r, d, 1, 0) ELSE r]

\* the quotient bits of r * 2^steps / d, for r < 2 * d, and what remains
LongDivide[r \in Seq(Nat), d \in Seq(Nat), q \in Seq(Nat), steps \in Nat] ==
    IF steps = 0 THEN DivideStep[r, d, q, ~Less(r, d)]
    ELSE LongDivide[Twice(DivideStep[r, d, q, ~Less(r, d)].r), d,
                    DivideStep[r, d, q, ~Less(r, d)].q, steps - 1]

\* x / y for y # 0
DoubleRound[sign \in {-1, 1}, d \in [q : Seq(Nat), r : Seq(Nat)], e \in Int] ==
    RoundDouble[sign, d.q, e, ~IsZero(d.r)]

DoubleDiv[x \in Doubles, y \in Doubles] ==
    IF IsZero(x.m) THEN DoubleZero
    ELSE DoubleRound[x.sign * y.sign, LongDivide[x.m, y.m, Big(0), 55],
                     x.e - y.e - 55]

\* x * k for an int k of at most seven bits
DoubleTimes[x \in Doubles, k \in Nat] ==
    RoundDouble[x.sign, MulLimbs(x.m, k, 1, 0), x.e, FALSE]

\* x < y
DoubleLess[x \in Doubles, y \in Doubles] ==
    LET PosLess(a, b) ==
            IF IsZero(b.m) THEN FALSE
            ELSE IF IsZero(a.m) THEN TRUE
            ELSE a.e < b.e \/ (a.e = b.e /\ Less(a.m, b.m))
        xneg == x.sign = -1 /\ ~IsZero(x.m)
        yneg == y.sign = -1 /\ ~IsZero(y.m)
    IN IF xneg /\ ~yneg THEN TRUE
       ELSE IF ~xneg /\ yneg THEN FALSE
       ELSE IF xneg THEN PosLess(y, x)
       ELSE PosLess(x, y)

(***************************************************************************)
(* app/services/psqi_scoring.py: the seven sleep components.  Numbers the  *)
(* code reads with float() are binary64 values here, so that a quotient is *)
(* rounded as the interpreter rounds it.  The inputs tried are finite      *)
(* numerals; float64 is not applied to the IEEE specials.                  *)
(***************************************************************************)
\* float(value) as a binary64 number
float64(value) ==
    LET Exact(f) ==
            IF f.kind = "raise" THEN f
            ELSE Returns(DoubleDiv[DoubleOfInt[f.value.num],
                                   DoubleOfInt[f.value.den]])
    IN Exact(float(value))

calculate_sleep_latency_Strict(sleep_onset, disturbance_a) ==
    LET OnsetScore(minutes) ==
            IF minutes < 15 THEN 0
            ELSE IF minutes <= 30 THEN 1
            ELSE IF minutes <= 60 THEN 2
            ELSE 3
        LatencyScore(total_latency) ==
            IF total_latency = 0 THEN Returns(0)
            ELSE IF 1 <= total_latency /\ total_latency <= 2 THEN Returns(1)
            ELSE IF 3 <= total_latency /\ total_latency <= 4 THEN Returns(2)
            ELSE Returns(3)
        Latency(onset, a) ==
            IF onset.kind = "raise" THEN onset
            ELSE IF a.kind = "raise" THEN a
            ELSE LatencyScore(OnsetScore(onset.value) + a.value)
    IN Latency(int(sleep_onset), int(disturbance_a))

calculate_sleep_latency(sleep_onset, disturbance_a) ==
    LET OnsetScore(minutes) ==
            IF minutes <= 15 THEN 0
            ELSE IF 16 <= minutes /\ minutes <= 30 THEN 1
            ELSE IF 31 <= minutes /\ minutes <= 60 THEN 2
            ELSE 3
        LatencyScore(total_latency) ==
            IF total_latency = 0 THEN Returns(0)
            ELSE IF 1 <= total_latency /\ total_latency <= 2 THEN Returns(1)
            ELSE IF 3 <= total_latency /\ total_latency <= 4 THEN Returns(2)
            ELSE Returns(3)
        Latency(onset, a) ==
            IF onset.kind = "raise" THEN onset
            ELSE IF a.kind = "raise" THEN a
            ELSE LatencyScore(OnsetScore(onset.value) + a.value)
    IN Latency(int(sleep_onset), int(disturbance_a))

\* str.split(sep): the pieces of chars between the separators
RECURSIVE split(_, _, _)
split(chars, sep, piece) ==
    IF chars = <<>> THEN <<piece>>
    ELSE IF Head(chars) = sep THEN <<piece>> \o split(Tail(chars), sep, <<>>)
    ELSE split(Tail(chars), sep, Append(piece, Head(chars)))

\* hours, minutes = map(int, time_str.split(":")); a piece that is no
\* numeral and a third piece both raise ValueError
time_to_float(time_str) ==
    LET Clock(count, hours, minutes) ==
            IF count # 2 \/ hours.kind = "raise" \/ minutes.kind = "raise"
            THEN Raises("ValueError")
            ELSE Returns(DoubleAdd[DoubleOfInt[hours.value],
                                   DoubleDiv[DoubleOfInt[minutes.value],
                                             DoubleOfInt[60]]])
        Pieces(parts) ==
            Clock(Len(parts), int_of_str(parts[1]), int_of_str(parts[2]))
    IN IF /\ time_str.t = "str"
          /\ \E i \in DOMAIN time_str.chars : time_str.chars[i] = ":"
       THEN Pieces(split(time_str.chars, ":", <<>>))
       ELSE float64(time_str)

\* wakeup_time - goto_sleep, a day later when that is not positive
hours_in_bed[goto_sleep \in Doubles, wakeup_time \in Doubles] ==
    IF DoubleLess[DoubleZero, DoubleSub[wakeup_time, goto_sleep]]
    THEN DoubleSub[wakeup_time, goto_sleep]
    ELSE DoubleAdd[DoubleSub[wakeup_time, goto_sleep], DoubleOfInt[24]]

\* (sleep_duration / hours_in_bed) * 100
efficiency[sleep_duration \in Doubles, in_bed \in Doubles] ==
    DoubleTimes[DoubleDiv[sleep_duration, in_bed], 100]

efficiency_score[e \in Doubles] ==
    IF ~DoubleLess[e, DoubleOfInt[85]] THEN 0
    ELSE IF ~DoubleLess[e, DoubleOfInt[75]] THEN 1
    ELSE IF ~DoubleLess[e, DoubleOfInt[65]] THEN 2
    ELSE 3

sleep_efficiency[sleep_duration \in Doubles, in_bed \in Doubles] ==
    IF IsZero(in_bed.m) THEN Raises("ZeroDivisionError")
    ELSE Returns(efficiency_score[efficiency[sleep_duration, in_bed]])

calculate_sleep_efficiency(sleep_duration, goto_sleep, wakeup_time) ==
    LET Efficiency(duration, goto, wakeup) ==
            IF duration.kind = "raise" THEN duration
            ELSE IF goto.kind = "raise" THEN goto
            ELSE IF wakeup.kind = "raise" THEN wakeup
            ELSE sleep_efficiency[duration.value,
                                  hours_in_bed[goto.value, wakeup.value]]
    IN Efficiency(float64(sleep_duration), time_to_float(goto_sleep),
                  time_to_float(wakeup_time))

\* the keys of the disturbance answers, in the order the form holds them
disturbance_keys == <<"a", "b", "c", "d", "e", "f", "g", "h", "i", "j">>

\* sum(int(v) for v in disturbances.values())
RECURSIVE SumValues(_, _, _)
SumValues(disturbances, i, total) ==
    LET Added(v) == IF v.kind = "raise" THEN v
                    ELSE SumValues(disturbances, i + 1, total + v.value)
    IN IF i > Len(disturbance_keys) THEN Returns(total)
       ELSE IF disturbance_keys[i] \notin DOMAIN disturbances
       THEN SumValues(disturbances, i + 1, total)
       ELSE Added(int(disturbances[disturbance_keys[i]]))

calculate_disturbance(disturbances) ==
    LET DisturbanceScore(total) ==
            IF total.kind = "raise" THEN total
            ELSE IF total.value = 0 THEN Returns(0)
            ELSE IF 1 <= total.value /\ total.value <= 9 THEN Returns(1)
            ELSE IF 10 <= total.value /\ total.value <= 18 THEN Returns(2)
            ELSE Returns(3)
    IN DisturbanceScore(SumValues(disturbances, 1, 0))

\* mapping[key]
getitem(mapping, key) ==
    IF key \in DOMAIN mapping THEN Returns(mapping[key]) ELSE Raises("KeyError")

\* c3 of a sleep duration in hours
duration_score[sleep_hours \in Doubles] ==
    IF DoubleLess[DoubleOfInt[7], sleep_hours] THEN 0
    ELSE IF ~DoubleLess[sleep_hours, DoubleOfInt[6]] THEN 1
    ELSE IF ~DoubleLess[sleep_hours, DoubleOfInt[5]] THEN 2
    ELSE 3

subscore_names ==
    <<"Subjective sleep quality", "Sleep latency", "Sleep duration",
      "Habitual sleep efficiency", "Sleep disturbance",
      "Use of sleep medication", "Daytime dysfunction">>

\* the steps of calculate_psqi_score in the order the code takes them; the
\* first step that raises ends the call
calculate_psqi_score(rating_result) ==
    LET Item(key) == getitem(rating_result, key)
        IntOf(item) == IF item.kind = "raise" THEN item ELSE int(item.value)
        ItemA(disturbances) ==
            IF disturbances.kind = "raise" THEN disturbances
            ELSE getitem(disturbances.value, "a")
        Latency(onset, a) ==
            IF onset.kind = "raise" THEN onset
            ELSE IF a.kind = "raise" THEN a
            ELSE calculate_sleep_latency(onset.value, a.value)
        SleepHours(duration) ==
            IF duration.kind = "raise" THEN duration
            ELSE float64(duration.value)
        Duration(sleep_hours) ==
            IF sleep_hours.kind = "raise" THEN sleep_hours
            ELSE Returns(duration_score[sleep_hours.value])
        Efficiency(duration, goto, wakeup) ==
            IF duration.kind = "raise" THEN duration
            ELSE IF goto.kind = "raise" THEN goto
            ELSE IF wakeup.kind = "raise" THEN wakeup
            ELSE calculate_sleep_efficiency(duration.value, goto.value,
                                            wakeup.value)
        Disturbance(disturbances) ==
            IF disturbances.kind = "raise" THEN disturbances
            ELSE calculate_disturbance(disturbances.value)
        Dysfunction(sum7) ==
            IF sum7 = 0 THEN 0
            ELSE IF 1 <= sum7 /\ sum7 <= 2 THEN 1
            ELSE IF 3 <= sum7 /\ sum7 <= 4 THEN 2
            ELSE 3
        PsqiResult(c1, c2, c3, c4, c5, c6, c7) ==
            Returns(
                [total_score |-> c1 + c2 + c3 + c4 + c5 + c6 + c7,
                 subscores |->
                     [name \in {subscore_names[i] : i \in DOMAIN subscore_names} |->
                         CASE name = subscore_names[1] -> c1
                           [] name = subscore_names[2] -> c2
                           [] name = subscore_names[3] -> c3
                           [] name = subscore_names[4] -> c4
                           [] name = subscore_names[5] -> c5
                           [] name = subscore_names[6] -> c6
                           [] OTHER -> c7]])
        FirstRaised(steps, raised) ==
            IF raised # {}
            THEN steps[CHOOSE i \in raised : \A j \in raised : i <= j]
            ELSE PsqiResult(steps[1].value, steps[2].value, steps[3].value,
                        steps[4].value, steps[5].value, steps[6].value,
                        Dysfunction(steps[7].value + steps[8].value))
        Steps(steps) ==
            FirstRaised(steps, {i \in DOMAIN steps : steps[i].kind = "raise"})
    IN Steps(<<IntOf(Item("sleep_quality")),
               Latency(Item("sleep_onset"),
                       ItemA(Item("psqi_sleep_disturbances"))),
               Duration(SleepHours(Item("sleep_duration"))),
               Efficiency(Item("sleep_duration"), Item("hour_to_goto_sleep"),
                          Item("wakeup_time")),
               Disturbance(Item("psqi_sleep_disturbances")),
               IntOf(Item("sleep_medication")),
               IntOf(Item("daytime_dysfunction")),
               IntOf(Item("daytime_motivation"))>>)

(***************************************************************************)
(* Calls of the sleep components.  Minutes to fall asleep run over every   *)
(* whole number up to MaxMinutes, as a number and as the text the form     *)
(* sends; bed and wake times are clock texts HH:MM.                        *)
(***************************************************************************)
MaxMinutes == 61       \* most minutes to fall asleep tried

\* the decimal numeral of a natural number
RECURSIVE Numeral(_)
Numeral(n) ==
    IF n < 10 THEN <<Digits[n + 1]>>
    ELSE Numeral(n \div 10) \o <<Digits[(n % 10) + 1]>>

ClockText(h, m) ==
    (IF h < 10 THEN <<"0">> ELSE <<>>) \o Numeral(h) \o <<":">>
    \o (IF m < 10 THEN <<"0">> ELSE <<>>) \o Numeral(m)

ClockHours == {0, 6, 8, 16, 22, 23}
ClockMinutes == {0, 20, 40}
ClockTimes == {StrValue(ClockText(h, m)) : h \in ClockHours, m \in ClockMinutes}
SleepDurations == {IntValue(6), FloatValue(13, 2), StrValue(<<"7", ".", "5">>)}

OnsetAnswers ==
    {IntValue(m) : m \in 0..MaxMinutes}
    \cup {StrValue(Numeral(m)) : m \in 0..MaxMinutes}
    \cup {IntValue(-5), FloatValue(31, 2), StrValue(<<"3", "0", ".", "5">>),
          StrValue(<<"s", "o", "o", "n">>), NoneValue}
DifficultyAnswers ==
    {IntValue(d) : d \in 0..3} \cup {StrValue(<<"2">>), IntValue(4), NoneValue}

\* the ten disturbance answers: a and the nine others alike among themselves
Disturbances(a, others) ==
    [k \in {disturbance_keys[i] : i \in DOMAIN disturbance_keys} |->
        IF k = "a" THEN a ELSE others]
DisturbanceAnswers ==
    {Disturbances(IntValue(a), IntValue(o)) : a \in {0, 1, 3}, o \in 0..3}
    \cup {Disturbances(StrValue(<<"1">>), StrValue(<<"0">>)),
          Disturbances(IntValue(0), StrValue(<<"n", "o">>)),
          [k \in {"b", "c"} |-> IntValue(1)]}

RatingResults ==
    {[sleep_quality |-> quality, sleep_onset |-> onset,
      psqi_sleep_disturbances |-> disturbances, sleep_duration |-> duration,
      hour_to_goto_sleep |-> StrValue(ClockText(22, 0)),
      wakeup_time |-> wakeup, sleep_medication |-> medication,
      daytime_dysfunction |-> dysfunction, daytime_motivation |-> IntValue(1)] :
        quality \in {IntValue(0), IntValue(3), IntValue(4)},
        onset \in {StrValue(<<"0">>), IntValue(45)},
        disturbances \in DisturbanceAnswers,
        duration \in {IntValue(5), FloatValue(13, 2), StrValue(<<"8">>)},
        wakeup \in {StrValue(ClockText(6, 0)), StrValue(ClockText(6, 40))},
        medication \in {IntValue(0), StrValue(<<"3">>)},
        dysfunction \in {IntValue(0), IntValue(3), StrValue(<<"o", "f", "t", "e", "n">>)}}
    \cup {[sleep_quality |-> IntValue(1), sleep_onset |-> IntValue(10)]}

LatencyCall(sleep_onset, disturbance_a) ==
    [op |-> "calculate_sleep_latency", sleep_onset |-> sleep_onset,
     disturbance_a |-> disturbance_a]
EfficiencyCall(sleep_duration, goto_sleep, wakeup_time) ==
    [op |-> "calculate_sleep_efficiency", sleep_duration |-> sleep_duration,
     goto_sleep |-> goto_sleep, wakeup_time |-> wakeup_time]
DisturbanceCall(disturbances) ==
    [op |-> "calculate_disturbance", disturbances |-> disturbances]
PsqiCall(rating_result) ==
    [op |-> "calculate_psqi_score", rating_result |-> rating_result]

InitPsqi ==
    /\ request \in
         {LatencyCall(o, a) : o \in OnsetAnswers, a \in DifficultyAnswers}
         \cup {EfficiencyCall(d, g, w) :
                 d \in SleepDurations, g \in ClockTimes, w \in ClockTimes}
         \cup {EfficiencyCall(d, g, IntValue(7)) :
                 d \in {IntValue(6), StrValue(<<"l", "o", "n", "g">>), NoneValue},
                 g \in {IntValue(23), StrValue(<<"2", "2", ":", "0", "0", ":", "0", "0">>),
                        StrValue(<<"2", "2", ":", "x">>), NoneValue}}
         \cup {DisturbanceCall(d) : d \in DisturbanceAnswers}
         \cup {PsqiCall(r) : r \in RatingResults}
    /\ reply = NoReply
    /\ surveys = <<>>
    /\ InterpreterIdle
    /\ ServicesIdle

CalculateSleepLatency ==
    /\ reply.kind = "pending"
    /\ request.op = "calculate_sleep_latency"
    /\ reply' = calculate_sleep_latency(request.sleep_onset, request.disturbance_a)
    /\ UNCHANGED <<disk, args, loaded, outcome, snap, request, surveys>>
    /\ UNCHANGED services

CalculateSleepEfficiency ==
    /\ reply.kind = "pending"
    /\ request.op = "calculate_sleep_efficiency"
    /\ reply' = calculate_sleep_efficiency(request.sleep_duration,
                                           request.goto_sleep, request.wakeup_time)
    /\ UNCHANGED <<disk, args, loaded, outcome, snap, request, surveys>>
    /\ UNCHANGED services

CalculateDisturbance ==
    /\ reply.kind = "pending"
    /\ request.op = "calculate_disturbance"
    /\ reply' = calculate_disturbance(request.disturbances)
    /\ UNCHANGED <<disk, args, loaded, outcome, snap, request, surveys>>
    /\ UNCHANGED services

CalculatePsqiScore ==
    /\ reply.kind = "pending"
    /\ request.op = "calculate_psqi_score"
    /\ reply' = calculate_psqi_score(request.rating_result)
    /\ UNCHANGED <<disk, args, loaded, outcome, snap, request, surveys>>
    /\ UNCHANGED services

NextPsqi ==
    \/ CalculateSleepLatency
    \/ CalculateSleepEfficiency
    \/ CalculateDisturbance
    \/ CalculatePsqiScore

SpecPsqi == InitPsqi /\ [][NextPsqi]_vars

(***************************************************************************)
(* Vocabulary of the claims about the sleep components.                    *)
(***************************************************************************)
PsqiReturned == request.op = "calculate_psqi_score" /\ reply.kind = "return"

\* the sum of f over keys
RECURSIVE SumOf(_, _)
SumOf(f, keys) ==
    IF keys = {} THEN 0
    ELSE LET k == CHOOSE x \in keys : TRUE
         IN f[k] + SumOf(f, keys \ {k})

\* C15: whenever calculate_psqi_score returns, each of the seven sub-scores
\* is an integer in 0..3, total_score is their sum, and total_score lies in
\* 0..21; the two components passed through unchanged (subjective quality,
\* medication use) included.
C15_ComponentsInRange ==
    PsqiReturned =>
        /\ DOMAIN reply.value.subscores
             = {subscore_names[i] : i \in DOMAIN subscore_names}
        /\ \A name \in DOMAIN reply.value.subscores :
               reply.value.subscores[name] \in 0..3
        /\ reply.value.total_score
             = SumOf(reply.value.subscores, DOMAIN reply.value.subscores)
        /\ reply.value.total_score \in 0..21

LatencyAsked == request.op = "calculate_sleep_latency" /\ reply.kind # "pending"
WholeMinutes ==
    {m \in 0..MaxMinutes : request.sleep_onset \in {IntValue(m), StrValue(Numeral(m))}}
DifficultyRatings ==
    {d \in 0..3 : request.disturbance_a \in {IntValue(d), StrValue(Numeral(d))}}
\* how many of the limits 15, 30 and 60 the minutes exceed
OnsetBucket(m) == Cardinality({limit \in {15, 30, 60} : m > limit})
Rebucket(total) == IF total >= 5 THEN 3 ELSE (total + 1) \div 2

\* C16: for every non-negative whole number of minutes and every difficulty
\* rating 0..3 the sleep-latency component is
\* rebucket(onset_bucket(minutes) + difficulty), with onset_bucket
\* <=15 -> 0, 16-30 -> 1, 31-60 -> 2, >60 -> 3 and rebucket 0 -> 0,
\* 1-2 -> 1, 3-4 -> 2, >=5 -> 3; 0 minutes with difficulty 0 gives 0.
C16_LatencyBuckets ==
    LatencyAsked =>
        \A m \in WholeMinutes, d \in DifficultyRatings :
            /\ reply = Returns(Rebucket(OnsetBucket(m) + d))
            /\ (m = 0 /\ d = 0 => reply.value = 0)

\* a latency call on the edge of two onset buckets has returned
C16_Witness ==
    /\ LatencyAsked
    /\ request.sleep_onset = StrValue(<<"3", "1">>)
    /\ request.disturbance_a = IntValue(1)
    /\ reply = Returns(2)

EfficiencyAsked ==
    request.op = "calculate_sleep_efficiency" /\ reply.kind # "pending"
ClockGiven ==
    /\ request.goto_sleep \in ClockTimes
    /\ request.wakeup_time \in ClockTimes
    /\ request.sleep_duration \in SleepDurations
\* the minute of the day a clock text names
MinuteOfDay(t) ==
    LET hm == CHOOSE x \in ClockHours \X ClockMinutes :
                  t = StrValue(ClockText(x[1], x[2]))
    IN 60 * hm[1] + hm[2]
MinutesInBed ==
    LET d == MinuteOfDay(request.wakeup_time) - MinuteOfDay(request.goto_sleep)
    IN IF d <= 0 THEN d + 1440 ELSE d
\* sleep_duration / time in bed >= percent / 100, in whole numbers
EfficiencyAtLeast(percent) ==
    LET hours == float(request.sleep_duration).value
    IN 6000 * hours.num >= percent * hours.den * MinutesInBed
ExactComponent ==
    IF EfficiencyAtLeast(85) THEN 0
    ELSE IF EfficiencyAtLeast(75) THEN 1
    ELSE IF EfficiencyAtLeast(65) THEN 2
    ELSE 3
CodeHoursInBed ==
    hours_in_bed[time_to_float(request.goto_sleep).value,
                 time_to_float(request.wakeup_time).value]

\* C17: for every bedtime and wake time given as clock times within a day,
\* time in bed is wake - bed, plus 24 hours when that is <= 0, so it lies in
\* (0, 24] hours and the division never divides by zero; the efficiency
\* component is 0 when sleep / time in bed >= 85%, 1 in [75, 85), 2 in
\* [65, 75) and 3 below 65 (6 h sleep, bed 22:00, wake 06:00: component 1).
C17_EfficiencyBuckets ==
    EfficiencyAsked /\ ClockGiven =>
        /\ DoubleLess[DoubleZero, CodeHoursInBed]
        /\ ~DoubleLess[DoubleOfInt[24], CodeHoursInBed]
        /\ reply.kind = "return"
        /\ reply.value = ExactComponent

NineItems == {"b", "c", "d", "e", "f", "g", "h", "i", "j"}
DisturbanceBucket(total) ==
    IF total = 0 THEN 0 ELSE IF total <= 9 THEN 1 ELSE IF total <= 18 THEN 2 ELSE 3
AnsweredItems ==
    [k \in NineItems \cap DOMAIN request.rating_result.psqi_sleep_disturbances |->
        int(request.rating_result.psqi_sleep_disturbances[k]).value]

\* C18: the disturbances component of calculate_psqi_score is the bucket
\* (0 -> 0, 1-9 -> 1, 10-18 -> 2, >=19 -> 3) of the sum of exactly the nine
\* sub-items b..j; sub-item a, which feeds the latency component, is not
\* counted a second time.
C18_NineDisturbances ==
    PsqiReturned =>
        reply.value.subscores["Sleep disturbance"]
          = DisturbanceBucket(SumOf(AnsweredItems, DOMAIN AnsweredItems))

(***************************************************************************)
(* app/api/v1/survey.py: submit_survey.  Texts the handler tests by their  *)
(* letters (token, patient id, survey type) are sequences of characters.   *)
(* The store is the sequence of the documents written, oldest first; the   *)
(* identity service knows the ID tokens it has issued.                     *)
(***************************************************************************)
mock_prefix == <<"m", "o", "c", "k", "_", "t", "o", "k", "e", "n", "_">>

startswith(chars, prefix) ==
    Len(chars) >= Len(prefix) /\ SubSeq(chars, 1, Len(prefix)) = prefix
endswith(chars, suffix) ==
    /\ Len(chars) >= Len(suffix)
    /\ SubSeq(chars, Len(chars) - Len(suffix) + 1, Len(chars)) = suffix

upper(chars) ==
    [i \in DOMAIN chars |->
        IF \E k \in DOMAIN LowerCase : LowerCase[k] = chars[i]
        THEN UpperCase[CHOOSE k \in DOMAIN LowerCase : LowerCase[k] = chars[i]]
        ELSE chars[i]]

\* chars.replace(old, "")
RECURSIVE remove(_, _)
remove(chars, old) ==
    IF chars = <<>> THEN <<>>
    ELSE IF startswith(chars, old)
    THEN remove(SubSeq(chars, Len(old) + 1, Len(chars)), old)
    ELSE <<Head(chars)>> \o remove(Tail(chars), old)

DecodedToken(uid) == [uid |-> uid, user_type |-> "patient"]

verify_mock_token(token, patient_id) ==
    IF startswith(token, mock_prefix) /\ endswith(token, patient_id)
    THEN Returns(DecodedToken(patient_id))
    ELSE HTTPException(401, "Invalid mock token")

PatientIds == {<<"1">>, <<"2", "1">>}
\* the ID token the identity service has issued to uid
IdToken(uid) == <<"i", "d", "-">> \o uid

\* auth.verify_id_token(token)
verify_id_token(token) ==
    IF \E uid \in PatientIds : token = IdToken(uid)
    THEN Returns(DecodedToken(CHOOSE uid \in PatientIds : token = IdToken(uid)))
    ELSE Raises("InvalidIdTokenError")

verify_token(token) ==
    IF startswith(token, mock_prefix)
    THEN Returns(DecodedToken(remove(token, mock_prefix)))
    ELSE IF verify_id_token(token).kind = "raise"
    THEN HTTPException(401, "Invalid token")
    ELSE verify_id_token(token)

Demographic == <<"d", "e", "m", "o", "g", "r", "a", "p", "h", "i", "c">>
PastHistory == <<"p", "a", "s", "t", "_", "h", "i", "s", "t", "o", "r", "y">>
PastHistoryForm == <<"p", "a", "s", "t", "-", "h", "i", "s", "t", "o", "r", "y">>
ScaleForms ==
    {<<"a", "u", "d", "i", "t">>, <<"p", "s", "q", "i">>, <<"b", "d", "i">>,
     <<"b", "a", "i">>, <<"k", "-", "m", "d", "q">>}

\* the pairs of SURVEY_TYPE_MAPPING
SURVEY_TYPE_MAPPING ==
    {<<Demographic, upper(Demographic)>>, <<PastHistoryForm, upper(PastHistory)>>}
    \cup {<<form, upper(form)>> : form \in ScaleForms}

\* SURVEY_TYPE_MAPPING.get(survey_type.lower(), survey_type.upper())
backend_survey_type(survey_type) ==
    IF \E m \in SURVEY_TYPE_MAPPING : m[1] = lower(survey_type)
    THEN (CHOOSE m \in SURVEY_TYPE_MAPPING : m[1] = lower(survey_type))[2]
    ELSE upper(survey_type)

REQUIRED_SURVEY_TYPES ==
    LET forms == {Demographic, PastHistory, PastHistoryForm} \cup ScaleForms
    IN forms \cup {upper(Demographic), upper(PastHistory)}
             \cup {upper(form) : form \in ScaleForms}

\* required or elective, as save_survey_result files the document
category(survey_type) ==
    IF lower(survey_type) \in {lower(t) : t \in REQUIRED_SURVEY_TYPES}
    THEN "required" ELSE "elective"

\* get_patient_demographic_info: the responses of the patient's latest
\* DEMOGRAPHIC document
DemographicDocs(store, patient_id) ==
    {i \in DOMAIN store :
        /\ store[i].data.patient_id = patient_id
        /\ store[i].category = "required"
        /\ store[i].data.survey_type = upper(Demographic)}

\* gender = info.get("gender") or info.get(<Korean for gender>) or info.get("sex")
patient_gender(store, patient_id) ==
    LET docs == DemographicDocs(store, patient_id)
        info == store[CHOOSE i \in docs : \A j \in docs : j <= i].data.responses
        Get(key) == get(info, key, NoneValue)
    IN IF docs = {} \/ DOMAIN info = {} THEN NoneValue
       ELSE IF bool(Get("gender")) THEN Get("gender")
       ELSE IF bool(Get("seongbyeol")) THEN Get("seongbyeol")
       ELSE Get("sex")

\* the parameters of scoring.get_score_interpretation; gender has a default
interpretation_parameters == {"survey_type", "score", "gender"}
required_parameters == {"survey_type", "score"}

\* get_score_interpretation(**keywords): a keyword that names no parameter,
\* or a parameter without default left out, is a TypeError
call_get_score_interpretation(data, keywords) ==
    IF /\ DOMAIN keywords \subseteq interpretation_parameters
       /\ required_parameters \subseteq DOMAIN keywords
    THEN get_score_interpretation(data, keywords.survey_type, keywords.score,
                                  get(keywords, "gender", PyNone))
    ELSE Raises("TypeError")

NotScored ==
    [total_score |-> NoneValue, subscores |-> NoneValue,
     interpretation |-> "Demographic/History information recorded",
     llm_report |-> "Demographic and medical history information has been successfully recorded."]
NotAvailable ==
    [total_score |-> NoneValue, subscores |-> NoneValue,
     interpretation |-> "Scoring not available for this survey type",
     llm_report |-> "Survey data has been recorded, but scoring is not available for this survey type."]
\* score_result.get(...) of a result without these keys
NoScoreKeys ==
    [total_score |-> NoneValue, subscores |-> NoneValue,
     interpretation |-> "None", llm_report |-> "None"]

Document(id, survey_type, data) ==
    [id |-> id, category |-> category(survey_type), data |-> data]
SurveySubmitResponse(survey_id, score, summary) ==
    [survey_id |-> survey_id, score |-> score, summary |-> summary]

\* what submit_survey answers and the store it leaves; writable tells
\* whether the store takes the write
submit_survey(req, data, store, writable) ==
    LET decoded_token ==
            IF startswith(req.token, mock_prefix)
            THEN verify_mock_token(req.token, req.patient_id)
            ELSE verify_token(req.token)
        survey_type == backend_survey_type(req.survey_type)
        gender == patient_gender(store, req.patient_id)
        scored == lower(survey_type) \notin {Demographic, PastHistory}
        called ==
            call_get_score_interpretation(data,
                [rating_result |-> req.responses, scale_name |-> survey_type,
                 gender |-> gender, generate_llm_report |-> BoolValue(TRUE)])
        score_result ==
            IF ~scored THEN NotScored
            ELSE IF "error" \in called.keys THEN NotAvailable
            ELSE NoScoreKeys
        survey_data ==
            [patient_id |-> req.patient_id, survey_type |-> survey_type,
             responses |-> req.responses, score |-> score_result.total_score,
             subscores |-> score_result.subscores,
             interpretation |-> score_result.interpretation,
             summary |-> score_result.llm_report]
        survey_id == Len(store) + 1
        Answer(reply_, store_) == [reply |-> reply_, surveys |-> store_]
    IN IF decoded_token.kind = "raise" THEN Answer(decoded_token, store)
       ELSE IF decoded_token.value.uid # req.patient_id
       THEN Answer(HTTPException(401, "Token does not match patient ID"), store)
       ELSE IF scored /\ called.kind = "raise"
       THEN Answer(IF called.exc = "HTTPException" THEN called
                   ELSE HTTPException(500, "Survey submission failed"), store)
       ELSE IF ~writable
       THEN Answer(HTTPException(400, "Failed to save survey"), store)
       ELSE Answer(Returns(SurveySubmitResponse(survey_id, score_result.total_score,
                                                score_result.llm_report)),
                   Append(store, Document(survey_id, survey_type, survey_data)))

(***************************************************************************)
(* Submissions: each patient with the mock token and the ID token of       *)
(* either patient and with a token nobody issued; scored scales and the    *)
(* two unscored forms in the spellings the front end sends.                *)
(***************************************************************************)
MaxStored == 2         \* most documents in the store before a submission

Tokens ==
    {mock_prefix \o uid : uid \in PatientIds} \cup {IdToken(uid) : uid \in PatientIds}
    \cup {<<"e", "x", "p", "i", "r", "e", "d">>}
SubmittedTypes ==
    {<<"A", "U", "D", "I", "T">>, <<"p", "s", "q", "i">>, Demographic,
     <<"P", "a", "s", "t", "-", "H", "i", "s", "t", "o", "r", "y">>,
     <<"O", "C", "I", "-", "R">>}
SubmittedResponses ==
    {[q1 |-> StrValue(<<"3">>)], [sex |-> StrValue(<<"F">>)]}

SubmitRequest(patient_id, survey_type, responses, token) ==
    [op |-> "submit_survey", patient_id |-> patient_id, survey_type |-> survey_type,
     responses |-> responses, token |-> token]
Submissions ==
    {SubmitRequest(p, t, r, k) :
        p \in PatientIds, t \in SubmittedTypes, r \in SubmittedResponses, k \in Tokens}

InitSubmit ==
    /\ request \in Submissions
    /\ reply = NoReply
    /\ surveys = <<>>
    /\ disk \in {NoFile, FileAtStart}
    /\ args = NoCall
    /\ loaded = NoFile
    /\ outcome = Pending
    /\ snap = NoSnap
    /\ ServicesIdle

\* POST /submit
SubmitSurvey ==
    /\ request.op = "submit_survey" /\ reply.kind = "pending"
    /\ \E writable \in BOOLEAN :
          /\ reply' = submit_survey(request, disk, surveys, writable).reply
          /\ surveys' = submit_survey(request, disk, surveys, writable).surveys
    /\ UNCHANGED <<disk, args, loaded, outcome, snap, request>>
    /\ UNCHANGED services

\* the front end sends the next submission
NextSubmission ==
    /\ reply.kind # "pending"
    /\ Len(surveys) < MaxStored
    /\ request' \in Submissions
    /\ reply' = NoReply
    /\ UNCHANGED <<disk, args, loaded, outcome, snap, surveys>>
    /\ UNCHANGED services

NextSubmit == SubmitSurvey \/ NextSubmission

SpecSubmit == InitSubmit /\ [][NextSubmit]_vars

(***************************************************************************)
(* Vocabulary of the claim about submissions.                              *)
(***************************************************************************)
TokenOfPatient ==
    request.token \in {mock_prefix \o request.patient_id, IdToken(request.patient_id)}
Answered == request.op = "submit_survey" /\ reply.kind = "pending" /\ reply'.kind # "pending"
StoreRefused == reply'.kind = "raise" /\ reply'.status_code = 400

\* C20: every submission whose token belongs to the submitting patient
\* stores the raw responses exactly once and returns the new survey id,
\* with score None when nothing was scored; a failure of the scoring never
\* keeps the responses from being stored.
C20_PersistsOnce ==
    [][Answered /\ TokenOfPatient /\ ~StoreRefused =>
          /\ Len(surveys') = Len(surveys) + 1
          /\ SubSeq(surveys', 1, Len(surveys)) = surveys
          /\ surveys'[Len(surveys')].data.patient_id = request.patient_id
          /\ surveys'[Len(surveys')].data.responses = request.responses
          /\ reply'.kind = "return"
          /\ reply'.value.survey_id = surveys'[Len(surveys')].id
          /\ reply'.value.score = surveys'[Len(surveys')].data.score]_vars

(***************************************************************************)
(* app/services/firebase.py: the survey documents with their paths,        *)
(* surveys/{patient_id}/{required|elective}/{id}, and their fields.  A     *)
(* field a document does not have is absent from its data.  The store      *)
(* answers a query with the matching documents in an order of its own.     *)
(* Times are whole hours; isoformat() is a numeral of fixed width, as the  *)
(* fields of an ISO text are.                                              *)
(***************************************************************************)
Doc(path, data) == [path |-> path, data |-> data]

\* collection("surveys").document(patient_id).collection(category)
Collection(store, patient_id, kind) ==
    {d \in store : Len(d.path) = 4 /\ d.path[2] = patient_id /\ d.path[3] = kind}

\* .where("survey_type", "==", survey_type), when a survey type is given
Query(store, patient_id, kind, survey_type) ==
    {d \in Collection(store, patient_id, kind) :
        \/ survey_type = NoneValue
        \/ /\ "survey_type" \in DOMAIN d.data
           /\ d.data.survey_type = survey_type.chars}

\* the orders in which a stream can yield the documents of a query
Orderings(docs) ==
    {order \in [1..Cardinality(docs) -> docs] :
        \A i, j \in 1..Cardinality(docs) : i # j => order[i] # order[j]}

\* document(...).get()
DocumentSnapshot(store, path) ==
    IF \E d \in store : d.path = path
    THEN [exists |-> TRUE, data |-> (CHOOSE d \in store : d.path = path).data]
    ELSE [exists |-> FALSE, data |-> <<>>]

\* collection.document(): an id no document has
RECURSIVE AutoId(_, _)
AutoId(store, n) ==
    IF \E d \in store : d.path[Len(d.path)] = "doc" \o ToString(n)
    THEN AutoId(store, n + 1)
    ELSE "doc" \o ToString(n)

\* timestamp.isoformat()
isoformat(time) ==
    <<Digits[((time \div 10) % 10) + 1], Digits[(time % 10) + 1]>>

\* a > b of two str
RECURSIVE StrGreater(_, _)
StrGreater(a, b) ==
    IF a = <<>> THEN FALSE
    ELSE IF b = <<>> THEN TRUE
    ELSE IF Head(a) # Head(b) THEN DigitValue(Head(a)) > DigitValue(Head(b))
    ELSE StrGreater(Tail(a), Tail(b))

\* what save_survey_result answers and the store it leaves
save_survey_result(store, survey_data, now, writable) ==
    IF "patient_id" \notin DOMAIN survey_data \/ ~writable
    THEN [reply |-> HTTPException(400, "Failed to save survey"), surveys |-> store]
    ELSE [reply |-> Returns(AutoId(store, 1)),
          surveys |->
              store \cup
              {Doc(<<"surveys", survey_data.patient_id,
                     category(get(survey_data, "survey_type", <<>>)),
                     AutoId(store, 1)>>,
                   [submission_date |-> now] @@ survey_data)}]

\* data = doc.to_dict() with survey_id, category and the date as ISO text
SurveyRow(doc) ==
    IF "submission_date" \in DOMAIN doc.data
    THEN [survey_id |-> doc.path[4], category |-> doc.path[3],
          submission_date |-> isoformat(doc.data.submission_date)] @@ doc.data
    ELSE [survey_id |-> doc.path[4], category |-> doc.path[3]] @@ doc.data

\* x.get("submission_date", "")
submission_date(survey) == get(survey, "submission_date", <<>>)

\* list.sort(key=..., reverse=True): descending, equal keys in their order
RECURSIVE sort_reverse(_, _)
sort_reverse(rows, sorted) ==
    IF rows = <<>> THEN sorted
    ELSE sort_reverse(
             Tail(rows),
             SelectSeq(sorted, LAMBDA x :
                 ~StrGreater(submission_date(Head(rows)), submission_date(x)))
             \o <<Head(rows)>>
             \o SelectSeq(sorted, LAMBDA x :
                 StrGreater(submission_date(Head(rows)), submission_date(x))))

\* get_patient_surveys: the rows of what the two streams yielded
get_patient_surveys(required, elective) ==
    sort_reverse([i \in 1..(Len(required) + Len(elective)) |->
                     IF i <= Len(required) THEN SurveyRow(required[i])
                     ELSE SurveyRow(elective[i - Len(required)])], <<>>)

(***************************************************************************)
(* app/dependencies/auth.py and the endpoints that read and delete a       *)
(* patient's surveys.  Each endpoint is given what the store's streams     *)
(* yielded for its query.                                                  *)
(***************************************************************************)
TokenData(user_id, user_type) == [user_id |-> user_id, user_type |-> user_type]

\* mutant: a patient passes whatever the patient id
verify_patient_access_AnyPatient(patient_id, current_user) ==
    IF current_user.user_type \in {"clinician", "patient"} THEN Returns(TRUE)
    ELSE HTTPException(403, "Access denied: insufficient permissions")

verify_patient_access(patient_id, current_user) ==
    IF current_user.user_type = "clinician" THEN Returns(TRUE)
    ELSE IF current_user.user_type = "patient" /\ current_user.user_id = patient_id
    THEN Returns(TRUE)
    ELSE HTTPException(403, "Access denied: insufficient permissions")

get_current_patient(current_user) ==
    IF current_user.user_type # "patient"
    THEN HTTPException(403, "Patient access required")
    ELSE Returns(current_user)

get_current_clinician(current_user) ==
    IF current_user.user_type # "clinician"
    THEN HTTPException(403, "Clinician access required")
    ELSE Returns(current_user)

\* GET /survey/patient/{patient_id}: survey["survey_id"], ["survey_type"]
\* and ["submission_date"] of a row without the key raise KeyError
SurveyResult(patient_id, survey) ==
    [survey_id |-> survey.survey_id, patient_id |-> patient_id,
     survey_type |-> survey.survey_type, timestamp |-> survey.submission_date,
     score |-> get(survey, "score", NoneValue),
     summary |-> get(survey, "summary", "")]

list_patient_surveys(patient_id, current_user, rows) ==
    IF verify_patient_access(patient_id, current_user).kind = "raise"
    THEN verify_patient_access(patient_id, current_user)
    ELSE IF \E i \in DOMAIN rows :
               ~({"survey_id", "survey_type", "submission_date"}
                     \subseteq DOMAIN rows[i])
    THEN HTTPException(500, "Failed to retrieve surveys")
    ELSE Returns([i \in DOMAIN rows |-> SurveyResult(patient_id, rows[i])])

TotalSummary == <<"T", "O", "T", "A", "L", "_", "S", "U", "M", "M", "A", "R", "Y">>

\* mutant: the earlier of two surveys of a type is kept
RECURSIVE latest_surveys_Earliest(_, _)
latest_surveys_Earliest(rows, latest) ==
    IF rows = <<>> THEN latest
    ELSE IF Head(rows).survey_type \notin DOMAIN latest
    THEN latest_surveys_Earliest(Tail(rows), (Head(rows).survey_type :> Head(rows)) @@ latest)
    ELSE IF StrGreater(submission_date(latest[Head(rows).survey_type]),
                       submission_date(Head(rows)))
    THEN latest_surveys_Earliest(Tail(rows), (Head(rows).survey_type :> Head(rows)) @@ latest)
    ELSE latest_surveys_Earliest(Tail(rows), latest)

\* the loop of the two reports: the first survey of a type, replaced by a
\* later one whose date is greater
RECURSIVE latest_surveys(_, _)
latest_surveys(rows, latest) ==
    IF rows = <<>> THEN latest
    ELSE IF Head(rows).survey_type \notin DOMAIN latest
    THEN latest_surveys(Tail(rows), (Head(rows).survey_type :> Head(rows)) @@ latest)
    ELSE IF StrGreater(submission_date(Head(rows)),
                       submission_date(latest[Head(rows).survey_type]))
    THEN latest_surveys(Tail(rows), (Head(rows).survey_type :> Head(rows)) @@ latest)
    ELSE latest_surveys(Tail(rows), latest)

scale_summaries(latest) ==
    [survey_type \in DOMAIN latest |->
        [score |-> get(latest[survey_type], "score", NoneValue),
         summary |-> get(latest[survey_type], "summary", ""),
         submission_date |-> submission_date(latest[survey_type])]]

Report(patient_id, summaries, total_summary) ==
    [patient_id |-> patient_id, scale_summaries |-> summaries,
     total_summary |-> total_summary]

\* surveys/{patient_id}/required/total_summary
total_summary_path(patient_id) ==
    <<"surveys", patient_id, "required", "total_summary">>

\* get_total_summary(patient_id): the document's fields or None
get_total_summary(store, patient_id) ==
    DocumentSnapshot(store, total_summary_path(patient_id))

\* save_total_summary(patient_id, total_summary): ref.set(...)
save_total_summary(store, patient_id, total_summary, now) ==
    {d \in store : d.path # total_summary_path(patient_id)}
    \cup {Doc(total_summary_path(patient_id),
              [summary |-> total_summary, survey_type |-> TotalSummary,
               updated_at |-> now])}

\* the surveys a report keeps; unfiltered names the types dropped
Filtered(rows, unfiltered) ==
    SelectSeq(rows, LAMBDA survey : upper(survey.survey_type) \notin unfiltered)

\* GET /patient/report (patient.py); generated is what generate_total_summary
\* answers.  The reply and the tasks the handler leaves on the event loop.
patient_report(current_user, rows, store, generated, pending) ==
    LET patient_id == current_user.user_id
        summaries ==
            scale_summaries(latest_surveys(
                Filtered(SelectSeq(rows, LAMBDA survey :
                                      "survey_type" \in DOMAIN survey),
                         {upper(Demographic), upper(PastHistory), TotalSummary}),
                <<>>))
        saved == get_total_summary(store, patient_id)
        Answer(reply_, tasks_) == [reply |-> reply_, tasks |-> tasks_]
    IN IF get_current_patient(current_user).kind = "raise"
       THEN Answer(get_current_patient(current_user), pending)
       ELSE IF rows = <<>>
       THEN Answer(HTTPException(404, "No survey data found"), pending)
       ELSE IF saved.exists
       THEN Answer(Returns(Report(patient_id, summaries,
                                  get(saved.data, "summary", "None"))), pending)
       ELSE IF generated.kind = "raise"
       THEN Answer(HTTPException(500, "Failed to generate patient report"), pending)
       ELSE Answer(Returns(Report(patient_id, summaries, generated.value)),
                   pending \cup {[patient_id |-> patient_id,
                                  total_summary |-> generated.value]})

\* GET /dashboard/patient/{patient_id}/report (dashboard.py)
clinician_report(patient_id, current_user, rows, store, generated) ==
    LET summaries ==
            scale_summaries(latest_surveys(
                Filtered(rows, {upper(Demographic), upper(PastHistory)}), <<>>))
        saved == get_total_summary(store, patient_id)
    IN IF get_current_clinician(current_user).kind = "raise"
       THEN get_current_clinician(current_user)
       ELSE IF rows = <<>>
       THEN HTTPException(404, "No survey data found for patient")
       ELSE IF \E i \in DOMAIN rows : "survey_type" \notin DOMAIN rows[i]
       THEN HTTPException(500, "Failed to generate patient report")
       ELSE IF saved.exists
       THEN Returns(Report(patient_id, summaries, get(saved.data, "summary", "None")))
       ELSE IF generated.kind = "raise"
       THEN HTTPException(500, "Failed to generate patient report")
       ELSE Returns(Report(patient_id, summaries, generated.value))

\* the loop of get_patient_summary: survey["submission_date"] of a survey
\* without a date raises KeyError
RECURSIVE latest_by_type(_, _)
latest_by_type(rows, latest) ==
    IF rows = <<>> THEN Returns(latest)
    ELSE IF Head(rows).survey_type \notin DOMAIN latest
    THEN latest_by_type(Tail(rows), (Head(rows).survey_type :> Head(rows)) @@ latest)
    ELSE IF \/ "submission_date" \notin DOMAIN Head(rows)
            \/ "submission_date" \notin DOMAIN latest[Head(rows).survey_type]
    THEN Raises("KeyError")
    ELSE IF StrGreater(Head(rows).submission_date,
                       latest[Head(rows).survey_type].submission_date)
    THEN latest_by_type(Tail(rows), (Head(rows).survey_type :> Head(rows)) @@ latest)
    ELSE latest_by_type(Tail(rows), latest)

\* GET /survey/patient/{patient_id}/summary (survey.py)
patient_summary(patient_id, current_user, rows) ==
    LET Summary(latest) ==
            IF latest.kind = "raise"
            THEN HTTPException(500, "Failed to get patient summary")
            ELSE IF \E t \in DOMAIN latest.value :
                       ~({"score", "submission_date", "summary"}
                             \subseteq DOMAIN latest.value[t])
            THEN HTTPException(500, "Failed to get patient summary")
            ELSE Returns(
                [patient_id |-> patient_id, total_surveys |-> Len(rows),
                 latest_results |->
                     [t \in DOMAIN latest.value |->
                         [score |-> latest.value[t].score,
                          submission_date |-> latest.value[t].submission_date,
                          summary |-> latest.value[t].summary]]])
    IN IF verify_patient_access(patient_id, current_user).kind = "raise"
       THEN verify_patient_access(patient_id, current_user)
       ELSE IF rows = <<>>
       THEN HTTPException(404, "No surveys found for patient")
       ELSE IF \E i \in DOMAIN rows : "survey_type" \notin DOMAIN rows[i]
       THEN HTTPException(500, "Failed to get patient summary")
       ELSE Summary(latest_by_type(rows, <<>>))

\* DELETE /survey/patient/{patient_id}/survey/{survey_id}: the document
\* surveys/{survey_id} is looked up
delete_survey(patient_id, survey_id, current_user, store) ==
    LET survey_doc == DocumentSnapshot(store, <<"surveys", survey_id>>)
        Answer(reply_, store_) == [reply |-> reply_, surveys |-> store_]
    IN IF verify_patient_access(patient_id, current_user).kind = "raise"
       THEN Answer(verify_patient_access(patient_id, current_user), store)
       ELSE IF ~survey_doc.exists
       THEN Answer(HTTPException(404, "Survey not found"), store)
       ELSE IF get(survey_doc.data, "patient_id", NoneValue) # patient_id
       THEN Answer(HTTPException(403, "Survey does not belong to patient"), store)
       ELSE Answer(Returns("Survey deleted successfully"),
                   {d \in store : d.path # <<"surveys", survey_id>>})

\* the document users/{user_id} as register_patient writes it
Profile(user_id, user_type, password) ==
    [user_id |-> user_id, user_type |-> user_type, password |-> password]

\* firebase_service.get_user_profile(user_id): the fields or None
get_user_profile(profiles, user_id) ==
    IF user_id \in DOMAIN profiles THEN profiles[user_id] ELSE NoneValue

\* GET /user/{user_id} (user.py)
user_profile(user_id, current_user, profiles) ==
    IF verify_patient_access(user_id, current_user).kind = "raise"
    THEN verify_patient_access(user_id, current_user)
    ELSE IF get_user_profile(profiles, user_id) = NoneValue
    THEN HTTPException(404, "User profile not found")
    ELSE IF ~({"user_id", "user_type"}
                  \subseteq DOMAIN get_user_profile(profiles, user_id))
    THEN HTTPException(500, "Failed to get user profile")
    ELSE Returns([user_id |-> get_user_profile(profiles, user_id).user_id,
                  user_type |-> get_user_profile(profiles, user_id).user_type])

(***************************************************************************)
(* The patient records: surveys are saved, time passes, and patients and   *)
(* clinicians list, summarise, report and delete.  Two patients, one of    *)
(* them with a profile, and a clinician.                                   *)
(***************************************************************************)
MaxDocs == 2           \* most surveys saved
MaxTime == 1           \* latest reading of the clock, in hours

Clinician == TokenData(<<"d", "r">>, "clinician")
CurrentUsers ==
    {TokenData(p, "patient") : p \in PatientIds}
    \cup {Clinician}

BdiType == <<"B", "D", "I">>
OciType == <<"O", "C", "I", "-", "R">>
SurveyData(patient_id, survey_type, score) ==
    [patient_id |-> patient_id, survey_type |-> survey_type, score |-> score,
     summary |-> "survey report"]
SavedSurveys ==
    {SurveyData(<<"1">>, BdiType, IntValue(sc)) : sc \in {1, 2}}
    \cup {SurveyData(<<"1">>, upper(Demographic), NoneValue),
          SurveyData(<<"2", "1">>, OciType, IntValue(3))}

SurveyDocs == {d \in surveys : d.path[4] # "total_summary"}
SurveyIds == {d.path[4] : d \in surveys} \cup {"doc9"}

\* generate_total_summary(scale_summaries, patient_id) answers a text or fails
generate_total_summary(answers) ==
    IF answers THEN Returns("overall summary") ELSE Raises("Exception")

\* what a stream of the patient's documents yields to a handler that passed
\* its guard; a refused handler asks the store nothing
Streamed(guard, patient_id, kind, survey_type) ==
    IF guard.kind = "raise" THEN {<<>>}
    ELSE Orderings(Query(surveys, patient_id, kind, survey_type))

RecordsCall(op, patient_id, current_user, stream) ==
    [op |-> op, patient_id |-> patient_id, current_user |-> current_user,
     stream |-> stream, survey_id |-> "", survey_type |-> NoneValue]

InitRecords ==
    /\ surveys = {}
    /\ users = (<<"1">> :> Profile(<<"1">>, "patient", "a"))
    /\ clock = 0
    /\ tasks = {}
    /\ request = NoRequest
    /\ reply = NoReply
    /\ InterpreterIdle
    /\ _patient_info_cache = <<>>
    /\ _cache_timestamp = <<>>
    /\ accounts = <<>>
    /\ trace = <<>>

RecordsFrame ==
    UNCHANGED <<disk, args, loaded, outcome, snap, _patient_info_cache,
                _cache_timestamp, users, accounts, trace>>

\* firebase_service.save_survey_result(survey_data)
SaveSurveyResult ==
    /\ request = NoRequest
    /\ Cardinality(SurveyDocs) < MaxDocs
    /\ \E survey_data \in SavedSurveys, now \in clock..MaxTime,
          writable \in BOOLEAN :
          LET Handled(answer) ==
                  /\ reply' = answer.reply
                  /\ surveys' = answer.surveys
          IN /\ request' = [op |-> "save_survey_result",
                            survey_data |-> survey_data]
             /\ Handled(save_survey_result(surveys, survey_data, now, writable))
             /\ clock' = now
    /\ UNCHANGED tasks
    /\ RecordsFrame

\* the survey type of the query string as the endpoint hands it to the store
mapped_query_type(survey_type) ==
    IF bool(survey_type) THEN StrValue(backend_survey_type(survey_type.chars))
    ELSE NoneValue

\* GET /survey/patient/{patient_id}
ListPatientSurveys ==
    /\ request = NoRequest
    /\ \E patient_id \in PatientIds, current_user \in CurrentUsers,
          survey_type \in {NoneValue, StrValue(<<"b", "d", "i">>)} :
          \E required \in Streamed(verify_patient_access(patient_id, current_user),
                                    patient_id, "required",
                                    mapped_query_type(survey_type)),
             elective \in Streamed(verify_patient_access(patient_id, current_user),
                                    patient_id, "elective",
                                    mapped_query_type(survey_type)) :
             /\ request' = [RecordsCall("list_patient_surveys", patient_id,
                                        current_user, required \o elective)
                               EXCEPT !.survey_type = survey_type]
             /\ reply' = list_patient_surveys(
                             patient_id, current_user,
                             get_patient_surveys(required, elective))
    /\ UNCHANGED <<surveys, clock, tasks>>
    /\ RecordsFrame

\* GET /survey/patient/{patient_id}/summary
PatientSummary ==
    /\ request = NoRequest
    /\ \E patient_id \in PatientIds, current_user \in CurrentUsers :
          \E required \in Streamed(verify_patient_access(patient_id, current_user),
                                    patient_id, "required", NoneValue),
             elective \in Streamed(verify_patient_access(patient_id, current_user),
                                    patient_id, "elective", NoneValue) :
             /\ request' = RecordsCall("patient_summary", patient_id, current_user,
                                       required \o elective)
             /\ reply' = patient_summary(patient_id, current_user,
                                         get_patient_surveys(required, elective))
    /\ UNCHANGED <<surveys, clock, tasks>>
    /\ RecordsFrame

\* GET /patient/report
PatientReport ==
    /\ request = NoRequest
    /\ \E current_user \in CurrentUsers, answers \in BOOLEAN :
          \E required \in Streamed(get_current_patient(current_user),
                                    current_user.user_id, "required", NoneValue),
             elective \in Streamed(get_current_patient(current_user),
                                    current_user.user_id, "elective", NoneValue) :
             LET Handled(answer) ==
                     /\ reply' = answer.reply
                     /\ tasks' = answer.tasks
             IN /\ request' = RecordsCall("patient_report", current_user.user_id,
                                          current_user, required \o elective)
                /\ Handled(patient_report(
                               current_user, get_patient_surveys(required, elective),
                               surveys, generate_total_summary(answers), tasks))
    /\ UNCHANGED <<surveys, clock>>
    /\ RecordsFrame

\* the event loop runs a task the patient report created, once the handler
\* has returned
SaveTotalSummary ==
    /\ request = NoRequest
    /\ \E task \in tasks :
          /\ surveys' = save_total_summary(surveys, task.patient_id,
                                           task.total_summary, clock)
          /\ tasks' = tasks \ {task}
    /\ UNCHANGED <<clock, request, reply>>
    /\ RecordsFrame

\* GET /dashboard/patient/{patient_id}/report
ClinicianReport ==
    /\ request = NoRequest
    /\ \E patient_id \in PatientIds, current_user \in CurrentUsers,
          answers \in BOOLEAN :
          \E required \in Streamed(get_current_clinician(current_user),
                                    patient_id, "required", NoneValue),
             elective \in Streamed(get_current_clinician(current_user),
                                    patient_id, "elective", NoneValue) :
             /\ request' = RecordsCall("clinician_report", patient_id, current_user,
                                       required \o elective)
             /\ reply' = clinician_report(patient_id, current_user,
                                          get_patient_surveys(required, elective),
                                          surveys,
                                          generate_total_summary(answers))
    /\ UNCHANGED <<surveys, clock, tasks>>
    /\ RecordsFrame

\* DELETE /survey/patient/{patient_id}/survey/{survey_id}
DeleteSurvey ==
    /\ request = NoRequest
    /\ \E patient_id \in PatientIds, current_user \in CurrentUsers,
          survey_id \in SurveyIds :
          LET Handled(answer) ==
                  /\ reply' = answer.reply
                  /\ surveys' = answer.surveys
          IN /\ request' = [RecordsCall("delete_survey", patient_id,
                                        current_user, <<>>)
                               EXCEPT !.survey_id = survey_id]
             /\ Handled(delete_survey(patient_id, survey_id, current_user, surveys))
    /\ UNCHANGED <<clock, tasks>>
    /\ RecordsFrame

\* GET /user/{user_id}
GetUserProfile ==
    /\ request = NoRequest
    /\ \E user_id \in PatientIds, current_user \in CurrentUsers :
          /\ request' = RecordsCall("user_profile", user_id, current_user, <<>>)
          /\ reply' = user_profile(user_id, current_user, users)
    /\ UNCHANGED <<surveys, clock, tasks>>
    /\ RecordsFrame

\* the response is sent; the server waits for the next request
Respond ==
    /\ request # NoRequest
    /\ request' = NoRequest
    /\ reply' = NoReply
    /\ trace' = <<>>
    /\ UNCHANGED <<disk, args, loaded, outcome, snap, surveys, clock, tasks,
                   _patient_info_cache, _cache_timestamp, users, accounts>>

NextRecords ==
    \/ SaveSurveyResult
    \/ Respond
    \/ ListPatientSurveys
    \/ PatientSummary
    \/ PatientReport
    \/ SaveTotalSummary
    \/ ClinicianReport
    \/ DeleteSurvey
    \/ GetUserProfile

SpecRecords == InitRecords /\ [][NextRecords]_vars

(***************************************************************************)
(* app/api/v1/dashboard.py: the cache of patient demographic info.  Time   *)
(* is the clock in hours; a call reads it once.  What the storage answers  *)
(* is an input of the call: the responses of the latest DEMOGRAPHIC        *)
(* survey and the user profile.  Texts are Python values; the Korean keys  *)
(* and values are written in Latin letters.                                *)
(***************************************************************************)
CACHE_EXPIRY_HOURS == 24

Unknown == StrValue(<<"U", "n", "k", "n", "o", "w", "n">>)
Nam == StrValue(<<"n", "a", "m">>)
Namseong == StrValue(<<"n", "a", "m", "s", "e", "o", "n", "g">>)
Yeo == StrValue(<<"y", "e", "o">>)
Yeoseong == StrValue(<<"y", "e", "o", "s", "e", "o", "n", "g">>)

\* f"Patient {patient_id}"
PatientName(patient_id) ==
    StrValue(<<"P", "a", "t", "i", "e", "n", "t", " ">> \o patient_id)

Info(name, age, gender, birth_date) ==
    [name |-> name, age |-> age, gender |-> gender, birth_date |-> birth_date]
Placeholder(patient_id) ==
    Info(PatientName(patient_id), IntValue(0), Unknown, NoneValue)

\* a or b or ... or default
RECURSIVE FirstTrue(_, _)
FirstTrue(values, default) ==
    IF values = <<>> THEN default
    ELSE IF bool(Head(values)) THEN Head(values)
    ELSE FirstTrue(Tail(values), default)

\* what get_patient_demographic_info answers: no survey (or an error it
\* swallowed), empty responses, responses, and responses that are no mapping
DemographicOutcomes == {"none", "empty", "named", "korean", "born", "malformed"}
demographic_data(demographic) ==
    CASE demographic = "named" ->
            [name |-> StrValue(<<"A", "n", "n">>), sex |-> StrValue(<<"F">>)]
      [] demographic = "korean" ->
            [ireum |-> StrValue(<<"B", "o">>), seongbyeol |-> Nam]
      [] demographic = "born" ->
            [gender |-> Yeoseong, birthDate |-> StrValue(<<"1", "9", "9", "0">>)]
      [] OTHER -> <<>>

\* what get_user_profile answers: no profile, a profile with or without
\* demographic_info, or HTTPException
ProfileOutcomes == {"none", "plain", "info", "raise"}
profile_demographic_info(profile) ==
    IF profile = "info"
    THEN [name |-> StrValue(<<"C", "y">>), age |-> IntValue(30),
          gender |-> StrValue(<<"M">>)]
    ELSE <<>>

\* calculate_age_from_birth_date of a text that has no "-" and is not eight
\* characters long: 0 (the dates themselves are not generated)
calculate_age_from_birth_date(birth_date_str) == IntValue(0)

\* the result built from the responses of the DEMOGRAPHIC survey
demographic_result(patient_id, data) ==
    LET Field(key) == get(data, key, NoneValue)
        gender_raw ==
            FirstTrue(<<Field("gender"), Field("seongbyeol"), Field("sex")>>, Unknown)
        birth_date ==
            FirstTrue(<<Field("birth_date"), Field("date_of_birth"),
                        Field("saengnyeonworil")>>, Field("birthDate"))
    IN Info(FirstTrue(<<Field("name"), Field("ireum"), Field("hwanjamyeong")>>,
                      PatientName(patient_id)),
            IF bool(birth_date) THEN calculate_age_from_birth_date(birth_date)
            ELSE IntValue(0),
            IF gender_raw \in {Nam, Namseong} THEN Namseong
            ELSE IF gender_raw \in {Yeo, Yeoseong} THEN Yeoseong
            ELSE gender_raw,
            birth_date)

\* the result built from the user profile
profile_result(patient_id, demographic_info) ==
    Info(get(demographic_info, "name", PatientName(patient_id)),
         get(demographic_info, "age", IntValue(0)),
         get(demographic_info, "gender", Unknown),
         get(demographic_info, "date_of_birth", NoneValue))

StorageCall(call, answer) == [call |-> call, answer |-> answer]

\* the try block of get_patient_demographic_info_cached: the result and the
\* storage calls made
patient_info(patient_id, demographic, profile) ==
    LET Found(result_, trace_) == [result |-> result_, trace |-> trace_]
        asked == <<StorageCall("get_patient_demographic_info", demographic)>>
        asked_both == Append(asked, StorageCall("get_user_profile", profile))
    IN IF demographic = "malformed"
       THEN Found(Placeholder(patient_id), asked)
       ELSE IF DOMAIN demographic_data(demographic) # {}
       THEN Found(demographic_result(patient_id, demographic_data(demographic)),
                  asked)
       ELSE IF profile = "raise"
       THEN Found(Placeholder(patient_id), asked_both)
       ELSE Found(profile_result(patient_id, profile_demographic_info(profile)),
                  asked_both)

Maps(cache, timestamps) == [cache |-> cache, timestamps |-> timestamps]

\* clear_expired_cache() at current_time
clear_expired_cache(maps, current_time) ==
    LET expired_keys ==
            {key \in DOMAIN maps.timestamps :
                current_time - maps.timestamps[key] > CACHE_EXPIRY_HOURS}
    IN Maps([key \in DOMAIN maps.cache \ expired_keys |-> maps.cache[key]],
            [key \in DOMAIN maps.timestamps \ expired_keys |->
                maps.timestamps[key]])

\* mutant: an entry of exactly the expiry age is still served
cache_hit_Inclusive(patient_id, maps, now) ==
    /\ patient_id \in DOMAIN maps.cache
    /\ patient_id \in DOMAIN maps.timestamps
    /\ now - maps.timestamps[patient_id] <= CACHE_EXPIRY_HOURS

\* the entry is cached and not expired
cache_hit(patient_id, maps, now) ==
    /\ patient_id \in DOMAIN maps.cache
    /\ patient_id \in DOMAIN maps.timestamps
    /\ now - maps.timestamps[patient_id] < CACHE_EXPIRY_HOURS

\* mutant: the result is cached without its timestamp
remember_InfoOnly(patient_id, maps, result, now) ==
    Maps((patient_id :> result) @@ maps.cache, maps.timestamps)

\* _patient_info_cache[patient_id] = result; _cache_timestamp[patient_id] = now
remember(patient_id, maps, result, now) ==
    Maps((patient_id :> result) @@ maps.cache,
         (patient_id :> now) @@ maps.timestamps)

\* the reply, the two maps and the storage calls of a call at now
get_patient_demographic_info_cached(patient_id, maps, now, demographic, profile) ==
    LET Answer(result, maps_, trace_) ==
            [reply |-> Returns(result), maps |-> maps_, trace |-> trace_]
        Looked(cleared, found) ==
            Answer(found.result,
                   remember(patient_id, cleared, found.result, now), found.trace)
        Cleared(cleared) ==
            IF cache_hit(patient_id, cleared, now)
            THEN Answer(cleared.cache[patient_id], cleared, <<>>)
            ELSE Looked(cleared, patient_info(patient_id, demographic, profile))
    IN Cleared(clear_expired_cache(maps, now))

\* POST /dashboard/clear-cache
clear_patient_cache(current_user, maps) ==
    IF get_current_clinician(current_user).kind = "raise"
    THEN [reply |-> get_current_clinician(current_user), maps |-> maps]
    ELSE [reply |-> Returns("Patient cache cleared successfully"),
          maps |-> Maps(<<>>, <<>>)]

(***************************************************************************)
(* The cache in use: calls for two patients with every answer of the       *)
(* storage, clearing, and time passing by half the expiry, so that entries *)
(* younger than the expiry, of exactly the expiry age and older are met.   *)
(***************************************************************************)
MaxHours == 36         \* latest reading of the clock, in hours

\* the entry of the patient when the call begins
Held(patient_id) ==
    IF patient_id \in DOMAIN _patient_info_cache
    THEN <<[info |-> _patient_info_cache[patient_id],
            time |-> _cache_timestamp[patient_id]]>>
    ELSE <<>>

InitCache ==
    /\ clock = 0
    /\ _patient_info_cache = <<>>
    /\ _cache_timestamp = <<>>
    /\ trace = <<>>
    /\ request = NoRequest
    /\ reply = NoReply
    /\ surveys = {}
    /\ tasks = {}
    /\ users = <<>>
    /\ accounts = <<>>
    /\ InterpreterIdle

CacheFrame ==
    UNCHANGED <<disk, args, loaded, outcome, snap, surveys, users, accounts, tasks>>

GetPatientDemographicInfoCached ==
    /\ request = NoRequest
    /\ \E patient_id \in PatientIds, demographic \in DemographicOutcomes,
          profile \in ProfileOutcomes :
          LET Handled(answer) ==
                  /\ reply' = answer.reply
                  /\ _patient_info_cache' = answer.maps.cache
                  /\ _cache_timestamp' = answer.maps.timestamps
                  /\ trace' = answer.trace
          IN /\ request' = [op |-> "get_patient_demographic_info_cached",
                            patient_id |-> patient_id, now |-> clock,
                            held |-> Held(patient_id)]
             /\ Handled(get_patient_demographic_info_cached(
                         patient_id, Maps(_patient_info_cache, _cache_timestamp),
                         clock, demographic, profile))
    /\ UNCHANGED clock
    /\ CacheFrame

ClearPatientCache ==
    /\ request = NoRequest
    /\ \E current_user \in CurrentUsers :
          LET Handled(answer) ==
                  /\ reply' = answer.reply
                  /\ _patient_info_cache' = answer.maps.cache
                  /\ _cache_timestamp' = answer.maps.timestamps
          IN /\ request' = [op |-> "clear_patient_cache",
                            current_user |-> current_user]
             /\ Handled(clear_patient_cache(
                         current_user, Maps(_patient_info_cache, _cache_timestamp)))
    /\ UNCHANGED <<clock, trace>>
    /\ CacheFrame

\* time passes
Elapse ==
    /\ request = NoRequest
    /\ clock + (CACHE_EXPIRY_HOURS \div 2) <= MaxHours
    /\ clock' = clock + (CACHE_EXPIRY_HOURS \div 2)
    /\ UNCHANGED <<request, reply, _patient_info_cache, _cache_timestamp, trace>>
    /\ CacheFrame

NextCache ==
    \/ GetPatientDemographicInfoCached
    \/ ClearPatientCache
    \/ Elapse
    \/ Respond

SpecCache == InitCache /\ [][NextCache]_vars

(***************************************************************************)
(* app/api/v1/auth.py: registration, login and the password update.  The   *)
(* profiles are the documents users/{user_id}; the accounts are the users  *)
(* of the authentication service with their passwords.  Whether the        *)
(* authentication service and the store take a write is an input.          *)
(***************************************************************************)
ADMIN_SECRET_KEY == "admin secret"

verify_admin_token(admin_token) ==
    IF admin_token # ADMIN_SECRET_KEY
    THEN HTTPException(401, "Invalid admin token")
    ELSE Returns(TRUE)

\* firebase_service.verify_password(user_id, password)
verify_password(profiles, user_id, password) ==
    IF user_id \in DOMAIN profiles
    THEN get(profiles[user_id], "password", <<>>) = password
    ELSE FALSE

Auth(reply_, profiles, auth_accounts) ==
    [reply |-> reply_, users |-> profiles, accounts |-> auth_accounts]

\* POST /auth/patient/register
register_patient(user_id, password, admin_token, profiles, auth_accounts, writable) ==
    IF verify_admin_token(admin_token).kind = "raise"
    THEN Auth(verify_admin_token(admin_token), profiles, auth_accounts)
    ELSE IF get_user_profile(profiles, user_id) # NoneValue
    THEN Auth(HTTPException(409, "Patient ID already exists"), profiles,
              auth_accounts)
    ELSE IF ~writable
    THEN Auth(HTTPException(400, "Failed to create user profile"), profiles,
              auth_accounts)
    ELSE Auth(Returns("Patient registered successfully"),
              (user_id :> Profile(user_id, "patient", password)) @@ profiles,
              auth_accounts)

\* POST /auth/clinician/register: create_user, then create_user_profile
register_clinician(user_id, password, admin_token, profiles, auth_accounts, auth_ok, writable) ==
    IF verify_admin_token(admin_token).kind = "raise"
    THEN Auth(verify_admin_token(admin_token), profiles, auth_accounts)
    ELSE IF get_user_profile(profiles, user_id) # NoneValue
    THEN Auth(HTTPException(409, "Clinician email already exists"), profiles,
              auth_accounts)
    ELSE IF ~auth_ok \/ user_id \in DOMAIN auth_accounts
    THEN Auth(HTTPException(400, "Failed to create user"), profiles, auth_accounts)
    ELSE IF ~writable
    THEN Auth(HTTPException(400, "Failed to create user profile"), profiles,
              (user_id :> password) @@ auth_accounts)
    ELSE Auth(Returns("Clinician registered successfully"),
              (user_id :> Profile(user_id, "clinician", password)) @@ profiles,
              (user_id :> password) @@ auth_accounts)

\* POST /auth/login
login(user_id, password, user_type, profiles) ==
    IF ~verify_password(profiles, user_id, password)
    THEN HTTPException(401, "Invalid credentials")
    ELSE IF get(profiles[user_id], "user_type", "") # user_type
    THEN HTTPException(401, "Invalid user type")
    ELSE Returns(TokenData(user_id, user_type))

\* POST /auth/patient/update-password: verify_password, update_password
\* (auth.update_user), then update_user_profile
update_patient_password(user_id, current_password, new_password, profiles, auth_accounts, auth_ok, writable) ==
    IF ~verify_password(profiles, user_id, current_password)
    THEN Auth(HTTPException(401, "Invalid current password"), profiles,
              auth_accounts)
    ELSE IF ~auth_ok \/ user_id \notin DOMAIN auth_accounts
    THEN Auth(HTTPException(400, "Failed to update password"), profiles,
              auth_accounts)
    ELSE IF ~writable
    THEN Auth(HTTPException(400, "Failed to update user profile"), profiles,
              [auth_accounts EXCEPT ![user_id] = new_password])
    ELSE Auth(Returns("Password updated successfully"),
              [profiles EXCEPT ![user_id].password = new_password],
              [auth_accounts EXCEPT ![user_id] = new_password])

(***************************************************************************)
(* Accounts in use: a patient and a clinician are registered, log in and   *)
(* change passwords, with either service failing at any write.             *)
(***************************************************************************)
MaxPasswords == 2      \* passwords in use

UserIds == {<<"1">>, <<"d", "r">>}
Passwords == {<<"p", "w">> \o <<Digits[n + 1]>> : n \in 1..MaxPasswords}
AdminTokens == {ADMIN_SECRET_KEY, "guess"}

InitAccounts ==
    /\ users = <<>>
    /\ accounts = <<>>
    /\ request = NoRequest
    /\ reply = NoReply
    /\ clock = 0
    /\ _patient_info_cache = <<>>
    /\ _cache_timestamp = <<>>
    /\ trace = <<>>
    /\ surveys = {}
    /\ tasks = {}
    /\ InterpreterIdle

AccountsFrame ==
    UNCHANGED <<disk, args, loaded, outcome, snap, surveys, clock, tasks,
                _patient_info_cache, _cache_timestamp, trace>>

AuthCall(op, user_id, password) ==
    [op |-> op, user_id |-> user_id, password |-> password, new_password |-> <<>>]

RegisterPatient ==
    /\ request = NoRequest
    /\ \E password \in Passwords, admin_token \in AdminTokens, writable \in BOOLEAN :
          LET Handled(answer) ==
                  /\ reply' = answer.reply
                  /\ users' = answer.users
                  /\ accounts' = answer.accounts
          IN /\ request' = AuthCall("register_patient", <<"1">>, password)
             /\ Handled(register_patient(<<"1">>, password, admin_token, users,
                                         accounts, writable))
    /\ AccountsFrame

RegisterClinician ==
    /\ request = NoRequest
    /\ \E password \in Passwords, admin_token \in AdminTokens,
          auth_ok \in BOOLEAN, writable \in BOOLEAN :
          LET Handled(answer) ==
                  /\ reply' = answer.reply
                  /\ users' = answer.users
                  /\ accounts' = answer.accounts
          IN /\ request' = AuthCall("register_clinician", <<"d", "r">>, password)
             /\ Handled(register_clinician(<<"d", "r">>, password, admin_token,
                                           users, accounts, auth_ok, writable))
    /\ AccountsFrame

Login ==
    /\ request = NoRequest
    /\ \E user_id \in UserIds, password \in Passwords,
          user_type \in {"patient", "clinician"} :
          /\ request' = AuthCall("login", user_id, password)
          /\ reply' = login(user_id, password, user_type, users)
    /\ UNCHANGED <<users, accounts>>
    /\ AccountsFrame

UpdatePatientPassword ==
    /\ request = NoRequest
    /\ \E user_id \in UserIds, current_password \in Passwords,
          new_password \in Passwords, auth_ok \in BOOLEAN, writable \in BOOLEAN :
          LET Handled(answer) ==
                  /\ reply' = answer.reply
                  /\ users' = answer.users
                  /\ accounts' = answer.accounts
          IN /\ request' = [AuthCall("update_patient_password", user_id,
                                     current_password)
                               EXCEPT !.new_password = new_password]
             /\ Handled(update_patient_password(
                            user_id, current_password, new_password, users,
                            accounts, auth_ok, writable))
    /\ AccountsFrame

NextAccounts ==
    \/ RegisterPatient
    \/ RegisterClinician
    \/ Login
    \/ UpdatePatientPassword
    \/ Respond

SpecAccounts == InitAccounts /\ [][NextAccounts]_vars

(***************************************************************************)
(* C21.  A request guarded by verify_patient_access is refused with 403    *)
(* "Access denied" exactly when the current user is neither a clinician    *)
(* nor the patient the request names, and a refused request leaves the     *)
(* surveys and the profiles as they were: a patient never reads or changes *)
(* another patient's records.                                              *)
(***************************************************************************)
GuardedOps == {"list_patient_surveys", "patient_summary", "delete_survey",
               "user_profile"}
AccessDenied(answer) ==
    /\ answer.kind = "raise"
    /\ answer.status_code = 403
    /\ answer.detail = "Access denied: insufficient permissions"
OwnOrClinician(call) ==
    \/ call.current_user.user_type = "clinician"
    \/ /\ call.current_user.user_type = "patient"
       /\ call.current_user.user_id = call.patient_id

C21_GuardStep ==
    (request = NoRequest /\ request'.op \in GuardedOps) =>
        /\ AccessDenied(reply') <=> ~OwnOrClinician(request')
        /\ AccessDenied(reply') => surveys' = surveys /\ users' = users

C21_PatientAccessGuard == [][C21_GuardStep]_vars

\* a patient asked for the surveys of another patient, who has some, and was refused
C21_OtherPatientRefused ==
    /\ request.op = "list_patient_surveys"
    /\ request.current_user = TokenData(<<"2", "1">>, "patient")
    /\ request.patient_id = <<"1">>
    /\ Collection(surveys, <<"1">>, "required") # {}
    /\ AccessDenied(reply)

(***************************************************************************)
(* C23.  When the patient report, the clinician report or the patient      *)
(* summary answers, the entry of each survey type it names is taken from   *)
(* the survey of that type with the greatest submission date, and of the   *)
(* surveys sharing that date from the one the storage returned first;      *)
(* every type of a scored survey the storage returned has an entry.        *)
(***************************************************************************)
LatestOps == {"patient_report", "clinician_report", "patient_summary"}
OfType(stream, survey_type) ==
    {i \in DOMAIN stream :
        /\ "submission_date" \in DOMAIN stream[i].data
        /\ stream[i].data.survey_type = survey_type}
Newest(stream, survey_type) ==
    stream[CHOOSE i \in OfType(stream, survey_type) :
              \A j \in OfType(stream, survey_type) :
                 \/ stream[i].data.submission_date > stream[j].data.submission_date
                 \/ /\ stream[i].data.submission_date = stream[j].data.submission_date
                    /\ i <= j].data
Entries(call, answer) ==
    IF call.op = "patient_summary" THEN answer.value.latest_results
    ELSE answer.value.scale_summaries

C23_LatestPerType ==
    (request.op \in LatestOps /\ reply.kind = "return") =>
        /\ \A t \in DOMAIN Entries(request, reply) :
              OfType(request.stream, t) # {} =>
                 /\ Entries(request, reply)[t].score = Newest(request.stream, t).score
                 /\ Entries(request, reply)[t].summary
                        = Newest(request.stream, t).summary
                 /\ Entries(request, reply)[t].submission_date
                        = isoformat(Newest(request.stream, t).submission_date)
        /\ \A t \in {BdiType, OciType} :
              OfType(request.stream, t) # {} => t \in DOMAIN Entries(request, reply)

\* a report answered from two surveys of a type that the storage returned
\* older first
C23_OlderReturnedFirst ==
    /\ request.op \in {"patient_report", "clinician_report"}
    /\ reply.kind = "return"
    /\ Len(request.stream) = 2
    /\ \A i \in 1..2 : request.stream[i].data.survey_type = BdiType
    /\ request.stream[1].data.submission_date < request.stream[2].data.submission_date

(***************************************************************************)
(* C27.  A user allowed to access patient P who deletes one of P's saved   *)
(* surveys by the id its save returned is answered with success, and the   *)
(* survey is in the store no more.                                         *)
(***************************************************************************)
SavedFor(store, patient_id, survey_id) ==
    {d \in store : /\ d.path[2] = patient_id
                   /\ d.path[4] = survey_id
                   /\ "submission_date" \in DOMAIN d.data}

C27_DeleteStep ==
    (/\ request = NoRequest
     /\ request'.op = "delete_survey"
     /\ OwnOrClinician(request')
     /\ SavedFor(surveys, request'.patient_id, request'.survey_id) # {}) =>
        /\ reply'.kind = "return"
        /\ SavedFor(surveys', request'.patient_id, request'.survey_id) = {}

C27_SavedSurveyDeleted == [][C27_DeleteStep]_vars

(***************************************************************************)
(* C28.  The scale summaries of an answered patient report or clinician    *)
(* report name no DEMOGRAPHIC, PAST_HISTORY or TOTAL_SUMMARY survey type,  *)
(* and a listing of a patient's surveys by a user allowed to see them is   *)
(* answered once the patient's total summary document is stored.           *)
(***************************************************************************)
NotRatingScales == {upper(Demographic), upper(PastHistory), TotalSummary}

C28_OnlyRatingScales ==
    /\ (request.op \in {"patient_report", "clinician_report"}
        /\ reply.kind = "return") =>
           DOMAIN reply.value.scale_summaries \cap NotRatingScales = {}
    /\ (/\ request.op = "list_patient_surveys"
        /\ OwnOrClinician(request)
        /\ get_total_summary(surveys, request.patient_id).exists) =>
           reply.kind = "return"

(***************************************************************************)
(* C26.  A submission whose token is invalid, or is the token of a user    *)
(* other than the patient it names, is answered with 401 and leaves the    *)
(* store as it was.  The user of a token is the uid that                   *)
(* firebase_service.verify_token decodes from it.                          *)
(***************************************************************************)
TokenOfAnother(token, patient_id) ==
    \/ verify_token(token).kind = "raise"
    \/ verify_token(token).value.uid # patient_id

C26_SubmitStep ==
    (Answered /\ TokenOfAnother(request.token, request.patient_id)) =>
        /\ reply'.kind = "raise"
        /\ reply'.status_code = 401
        /\ surveys' = surveys

C26_TokenOfThePatient == [][C26_SubmitStep]_vars

(***************************************************************************)
(* C25.  score_k_mdq returns the number of affirmative answers among       *)
(* q1..q13, plus 1 when the clustering answer is affirmative and 0 when it *)
(* is negative, of another wording or absent, plus the impairment clamped  *)
(* to 0..3; the composite lies in 0..17.                                   *)
(***************************************************************************)
KmdqScored ==
    /\ request.op = "score_survey"
    /\ request.survey_type = "K-MDQ"
    /\ reply.kind = "return"
Affirmative(answer) ==
    IF answer.t = "str" THEN lower(answer.chars) \in yes_answers ELSE bool(answer)
ClusteringPoint(responses) ==
    IF "clustering" \in DOMAIN responses /\ Affirmative(responses.clustering)
    THEN 1 ELSE 0
ClampedImpairment(responses) ==
    _convert_to_numeric(get(responses, "impairment", IntValue(0)), 3).value

C25_KmdqComposite ==
    KmdqScored =>
        /\ reply.value = FloatValue(CountYes(request.responses, 1, 0)
                                    + ClusteringPoint(request.responses)
                                    + ClampedImpairment(request.responses), 1)
        /\ reply.value.num >= 0
        /\ reply.value.num <= 17 * reply.value.den

(***************************************************************************)
(* C24.  A call of get_patient_demographic_info_cached asks the storage    *)
(* nothing exactly when the cache held an entry of the patient younger     *)
(* than 24 hours, and then answers that entry; an entry 24 hours old or    *)
(* older is looked up again and replaced by the answer, stamped with the   *)
(* time of the call; after the call neither map holds an entry older than  *)
(* 24 hours.                                                               *)
(***************************************************************************)
CachedCall == request.op = "get_patient_demographic_info_cached"
HeldYoung ==
    /\ request.held # <<>>
    /\ request.now - request.held[1].time < 24

C24_ExpiresByTime ==
    CachedCall =>
        /\ trace = <<>> <=> HeldYoung
        /\ HeldYoung =>
              /\ reply.value = request.held[1].info
              /\ _patient_info_cache[request.patient_id] = request.held[1].info
              /\ _cache_timestamp[request.patient_id] = request.held[1].time
        /\ ~HeldYoung =>
              /\ _patient_info_cache[request.patient_id] = reply.value
              /\ _cache_timestamp[request.patient_id] = request.now
        /\ \A key \in DOMAIN _patient_info_cache \cup DOMAIN _cache_timestamp :
              /\ key \in DOMAIN _cache_timestamp
              /\ request.now - _cache_timestamp[key] <= 24

\* the cache held an entry exactly 24 hours old with another content than
\* the storage now answers; the storage was asked and the entry replaced
C24_ExpiredEntryReplaced ==
    /\ CachedCall
    /\ request.held # <<>>
    /\ request.now - request.held[1].time = 24
    /\ trace # <<>>
    /\ reply.value # request.held[1].info
    /\ _cache_timestamp[request.patient_id] = request.now

(***************************************************************************)
(* C29.  The two cache maps hold the same patient ids; what a call of      *)
(* get_patient_demographic_info_cached answers is the patient's cache      *)
(* entry, stamped with the time of the call when the storage was asked.    *)
(* When the lookup fails the answer is the placeholder, and a call that    *)
(* finds a placeholder younger than 24 hours answers it without asking the *)
(* storage.                                                                *)
(***************************************************************************)
LookupFailed ==
    /\ trace # <<>>
    /\ \/ trace[1].answer = "malformed"
       \/ Len(trace) = 2 /\ trace[2].answer = "raise"

C29_AnswersAreCached ==
    /\ DOMAIN _patient_info_cache = DOMAIN _cache_timestamp
    /\ CachedCall =>
          /\ request.patient_id \in DOMAIN _patient_info_cache
          /\ _patient_info_cache[request.patient_id] = reply.value
          /\ trace # <<>> => _cache_timestamp[request.patient_id] = request.now
          /\ LookupFailed => reply.value = Placeholder(request.patient_id)
          /\ (HeldYoung /\ request.held[1].info = Placeholder(request.patient_id)) =>
                /\ reply.value = Placeholder(request.patient_id)
                /\ trace = <<>>

\* a placeholder cached after a failed lookup is answered again later
C29_PlaceholderServed ==
    /\ CachedCall
    /\ HeldYoung
    /\ request.now > request.held[1].time
    /\ request.held[1].info = Placeholder(request.patient_id)
    /\ reply.value = Placeholder(request.patient_id)
    /\ trace = <<>>
    /\ Cardinality(DOMAIN _patient_info_cache) = 2

(***************************************************************************)
(* C30.  A password update that answers an error leaves the password of    *)
(* the authentication service and the password of the profile as they      *)
(* were; one that succeeds sets both to the new password; so after any     *)
(* update the two agree whenever they agreed before.                       *)
(***************************************************************************)
PasswordsAgree(profiles, auth_accounts, user_id) ==
    (user_id \in DOMAIN profiles /\ user_id \in DOMAIN auth_accounts) =>
        profiles[user_id].password = auth_accounts[user_id]

C30_UpdateStep ==
    (request = NoRequest /\ request'.op = "update_patient_password") =>
        /\ reply'.kind = "raise" => users' = users /\ accounts' = accounts
        /\ reply'.kind = "return" =>
              /\ users'[request'.user_id].password = request'.new_password
              /\ accounts'[request'.user_id] = request'.new_password
        /\ PasswordsAgree(users, accounts, request'.user_id) =>
              PasswordsAgree(users', accounts', request'.user_id)

C30_AllOrNothing == [][C30_UpdateStep]_vars

(***************************************************************************)
(* Reverse scoring, as the specification gives it: a raw item score is     *)
(* reflected within the item's scoring_range [min, max] before the items   *)
(* are summed, reversed = min + max - raw.                                 *)
(***************************************************************************)
MaxScale == 5          \* greatest upper end of a scoring range

\* mutant: the lower end of the range is left out
reflect_FromMax(raw, low, high) == high - raw

reflect(raw, low, high) == low + high - raw

ReflectCall(raw, low, high) ==
    [op |-> "reflect", raw |-> raw, low |-> low, high |-> high, times |-> 0]

InitReflect ==
    /\ request \in {ReflectCall(raw, low, high) :
                       low \in 0..1, high \in 0..MaxScale, raw \in 0..MaxScale}
    /\ request.low <= request.raw /\ request.raw <= request.high
    /\ reply = NoReply
    /\ surveys = <<>>
    /\ InterpreterIdle
    /\ ServicesIdle

\* the item is reflected
Reflect ==
    /\ request.op = "reflect" /\ request.times = 0
    /\ request' = [request EXCEPT !.times = 1]
    /\ reply' = Returns(reflect(request.raw, request.low, request.high))
    /\ UNCHANGED <<disk, args, loaded, outcome, snap, surveys>>
    /\ UNCHANGED services

\* the reflected score is reflected again
ReflectAgain ==
    /\ request.op = "reflect" /\ request.times = 1
    /\ request' = [request EXCEPT !.times = 2]
    /\ reply' = Returns(reflect(reply.value, request.low, request.high))
    /\ UNCHANGED <<disk, args, loaded, outcome, snap, surveys>>
    /\ UNCHANGED services

NextReflect == Reflect \/ ReflectAgain

SpecReflect == InitReflect /\ [][NextReflect]_vars

(***************************************************************************)
(* C22.  For the scale range [1, 5] and every item value 1..5, the         *)
(* reflected value lies in 1..5 and reflecting it again gives the item     *)
(* value back; the same holds for every range and every value within it.   *)
(***************************************************************************)
C22_ReflectInvolution ==
    request.op = "reflect" =>
        /\ request.times = 1 =>
              /\ reply.value >= request.low
              /\ reply.value <= request.high
        /\ request.times = 2 => reply.value = request.raw

\* 2 on the scale 1..5 was reflected to 4 and back
C22_ReflectedTwice ==
    /\ request = [ReflectCall(2, 1, 5) EXCEPT !.times = 2]
    /\ reply.value = 2

====
